---------------------------- MODULE Spec2Model ----------------------------
(***************************************************************************)
(* Colorado Service Navigator: the link health checker                     *)
(* (scripts/check-links.js) and the service discovery tool                 *)
(* (scripts/discover-services.js) as state machines.                       *)
(*                                                                         *)
(* A JavaScript string is a sequence of one-character strings, so that the *)
(* regular expressions and the URL parser work on characters.              *)
(***************************************************************************)
EXTENDS Integers, Sequences, FiniteSets, Bags, TLC

VARIABLES
  program,     \* "audit" (check-links.js), "discover" (discover-services.js),
               \* "probe" (one call of checkUrl), "pure" (a pure function is applied)
  outputJson,  \* --json
  verbose,     \* --verbose
  catalogFile, \* the catalog on disk
  pc,          \* where main stands
  catalog,     \* catalog.services, once loaded
  i,           \* checkAllUrls: the start of the batch
  inflight,    \* checkAllUrls: the probes of the batch, in batch order
  results,     \* checkAllUrls: results
  stdout,      \* the documents written to stdout
  stderr,      \* the messages written to stderr
  exitCode,    \* the exit code of the process, -1 while it runs
  fetchCount,  \* the network requests issued so far
  requests,    \* the bag of the requests issued so far: method, URL, service id
  headSeen,    \* one probe: the HEAD response it received, if any
  bodySeen,    \* one probe: the GET bodies it received
  thrown,      \* one probe: what its HEAD or GET threw, if anything
  clock,       \* one probe: Date.now(), startTime, elapsed and the elapsed it returns
  urlLimit,    \* discovery: --limit
  existingUrls,       \* discovery: the normalized URLs of the catalog
  rootIndex,          \* discovery: the sitemap root being resolved
  stack,              \* discovery: the activations of fetchSitemap, innermost last
  allDiscoveredUrls,  \* discovery: the URLs found, in insertion order
  potentialServices,  \* discovery: the URLs that passed the filter
  candidates,         \* discovery: the candidates with page info
  deepestFetch,       \* discovery: the greatest depth a sitemap was fetched at, -1 if none
  deepCalls,          \* discovery: the calls of fetchSitemap with depth > 2 so far
  rootFetches,        \* discovery: the sitemap fetches for the current root
  pureFn,      \* the pure function under application, "idle" otherwise
  pureArgA,    \* its first argument
  pureArgB,    \* its second argument (isSuspiciousRedirect)
  pureDone,    \* the function has returned
  pureBool,    \* a boolean return value
  pureStr,     \* normalizeUrl(u)
  pureStr2     \* normalizeUrl(u + "/")

(***************************************************************************)
(* Strings                                                                 *)
(***************************************************************************)

\* String.prototype.toLowerCase, one character
ToLowerChar(c) ==
  CASE c = "A" -> "a" [] c = "B" -> "b" [] c = "C" -> "c" [] c = "D" -> "d"
    [] c = "E" -> "e" [] c = "F" -> "f" [] c = "G" -> "g" [] c = "H" -> "h"
    [] c = "I" -> "i" [] c = "J" -> "j" [] c = "K" -> "k" [] c = "L" -> "l"
    [] c = "M" -> "m" [] c = "N" -> "n" [] c = "O" -> "o" [] c = "P" -> "p"
    [] c = "Q" -> "q" [] c = "R" -> "r" [] c = "S" -> "s" [] c = "T" -> "t"
    [] c = "U" -> "u" [] c = "V" -> "v" [] c = "W" -> "w" [] c = "X" -> "x"
    [] c = "Y" -> "y" [] c = "Z" -> "z" [] OTHER -> c

\* String.prototype.toLowerCase
toLowerCase(s) == [pos \in 1..Len(s) |-> ToLowerChar(s[pos])]

\* the regular expression class \d
IsDigit(c) == c \in {"0", "1", "2", "3", "4", "5", "6", "7", "8", "9"}

\* s has t at (1-based) position i
HasAt(s, t, pos) == pos >= 1 /\ pos + Len(t) - 1 <= Len(s) /\ SubSeq(s, pos, pos + Len(t) - 1) = t

\* an unanchored literal pattern /t/ matches s
Contains(s, t) == \E pos \in 1..(Len(s) - Len(t) + 1) : HasAt(s, t, pos)

\* /t/i
ContainsI(s, t) == Contains(toLowerCase(s), t)

\* /t$/
EndsWith(s, t) == HasAt(s, t, Len(s) - Len(t) + 1)

\* /t$/i
EndsWithI(s, t) == EndsWith(toLowerCase(s), t)

\* the least i with s[i] \in cs, or 0
RECURSIVE IndexOfAny(_, _, _)
IndexOfAny(s, cs, from) ==
  IF from > Len(s) THEN 0
  ELSE IF s[from] \in cs THEN from
  ELSE IndexOfAny(s, cs, from + 1)

\* String.prototype.split on a one-character separator
RECURSIVE split(_, _)
split(s, sep) ==
  LET pos == IndexOfAny(s, {sep}, 1)
  IN IF pos = 0 THEN <<s>>
     ELSE <<SubSeq(s, 1, pos - 1)>> \o split(SubSeq(s, pos + 1, Len(s)), sep)

\* Array.prototype.join with a one-character separator
RECURSIVE join(_, _)
join(parts, sep) ==
  IF Len(parts) = 0 THEN <<>>
  ELSE IF Len(parts) = 1 THEN parts[1]
  ELSE parts[1] \o <<sep>> \o join(Tail(parts), sep)

\* Array.prototype.slice(-n): the last n elements, all of them when there are fewer
sliceLast(parts, n) ==
  IF Len(parts) <= n THEN parts ELSE SubSeq(parts, Len(parts) - n + 1, Len(parts))

\* Array.prototype.slice(from, to), 0-based, to exclusive and clipped to the length
slice(xs, from, to) ==
  LET hi == IF to < Len(xs) THEN to ELSE Len(xs)
  IN IF from >= hi THEN <<>> ELSE SubSeq(xs, from + 1, hi)

\* String.prototype.replace(/\/$/, ''): one trailing slash is removed
stripTrailingSlash(s) ==
  IF Len(s) > 0 /\ s[Len(s)] = "/" THEN SubSeq(s, 1, Len(s) - 1) ELSE s

(***************************************************************************)
(* new URL(s): the parts the two programs read.  The parser is modelled    *)
(* for strings of the shape  scheme "://" host [path] ["?" query]          *)
(* ["#" fragment]; a string without "://" after a non-empty scheme has no  *)
(* scheme the parser accepts without a base URL, and the constructor       *)
(* throws (ok = FALSE).  The host name is lower-cased by the parser, the   *)
(* path name is "/" when the string has no path.  Ports, credentials, dot  *)
(* segments, backslashes and white space are not modelled: no input has    *)
(* them.                                                                   *)
(***************************************************************************)
NoUrl == [ok |-> FALSE, protocol |-> <<>>, hostname |-> <<>>, pathname |-> <<>>]

URL(s) ==
  LET colon == IndexOfAny(s, {":"}, 1)
  IN IF colon <= 1 \/ ~HasAt(s, <<":", "/", "/">>, colon) THEN NoUrl
     ELSE
       LET hostFrom == colon + 3
           stop == IndexOfAny(s, {"/", "?", "#"}, hostFrom)
           hostTo == IF stop = 0 THEN Len(s) ELSE stop - 1
           pathStop == IF stop = 0 THEN 0 ELSE IndexOfAny(s, {"?", "#"}, stop)
           pathTo == IF pathStop = 0 THEN Len(s) ELSE pathStop - 1
           path == IF stop = 0 THEN <<>> ELSE SubSeq(s, stop, pathTo)
       IN IF hostTo < hostFrom THEN NoUrl
          ELSE [ok |-> TRUE,
                protocol |-> toLowerCase(SubSeq(s, 1, colon)),
                hostname |-> toLowerCase(SubSeq(s, hostFrom, hostTo)),
                pathname |-> IF path = <<>> THEN <<"/">> ELSE path]

(***************************************************************************)
(* check-links.js: the domain classifier                                   *)
(***************************************************************************)

\* lastThree.match(/\.(state\.co\.us|co\.us)$/)
MatchesCoUs(s) == EndsWith(s, <<".","s","t","a","t","e",".","c","o",".","u","s">>) \/ EndsWith(s, <<".","c","o",".","u","s">>)

getBaseDomain(hostname) ==
  LET parts == split(hostname, ".")
  IN IF Len(parts) >= 3 /\ MatchesCoUs(join(sliceLast(parts, 3), "."))
     THEN join(sliceLast(parts, 4), ".")
     ELSE join(sliceLast(parts, 2), ".")

\* isSuspiciousRedirect without the base-domain test: every change of host counts
isSuspiciousRedirectHostOnly(originalUrl, finalUrl) ==
  LET original == URL(originalUrl)
      final == URL(finalUrl)
  IN IF ~original.ok \/ ~final.ok THEN TRUE
     ELSE original.hostname # final.hostname

isSuspiciousRedirect(originalUrl, finalUrl) ==
  LET original == URL(originalUrl)
      final == URL(finalUrl)
  IN IF ~original.ok \/ ~final.ok THEN TRUE            \* catch { return true }
     ELSE IF original.hostname = final.hostname THEN FALSE
     ELSE IF getBaseDomain(original.hostname) = getBaseDomain(final.hostname) THEN FALSE
     ELSE TRUE

(***************************************************************************)
(* discover-services.js: the pattern matcher and the URL normaliser        *)
(***************************************************************************)

\* /\/services?\//i, /\/programs?\//i, /\/forms?\//i
ContainsOptS(s, stem) ==
  ContainsI(s, stem \o <<"/">>) \/ ContainsI(s, stem \o <<"s", "/">>)

\* CONFIG.servicePatterns.some(pattern => pattern.test(url))
matchesService(url) ==
  \/ ContainsI(url, <<"/","a","p","p","l","y">>)
  \/ ContainsI(url, <<"/","r","e","g","i","s","t","e","r">>)
  \/ ContainsI(url, <<"/","r","e","n","e","w">>)
  \/ ContainsI(url, <<"/","f","i","l","e","-">>)
  \/ ContainsI(url, <<"/","r","e","q","u","e","s","t">>)
  \/ ContainsI(url, <<"/","s","e","a","r","c","h">>)
  \/ ContainsI(url, <<"/","f","i","n","d","-">>)
  \/ ContainsI(url, <<"/","l","o","o","k","u","p">>)
  \/ ContainsI(url, <<"/","c","h","e","c","k","-">>)
  \/ ContainsI(url, <<"/","v","e","r","i","f","y">>)
  \/ ContainsI(url, <<"/","l","i","c","e","n","s","e">>)
  \/ ContainsI(url, <<"/","p","e","r","m","i","t">>)
  \/ ContainsI(url, <<"/","b","e","n","e","f","i","t","s">>)
  \/ ContainsI(url, <<"/","a","s","s","i","s","t","a","n","c","e">>)
  \/ ContainsOptS(url, <<"/","s","e","r","v","i","c","e">>)
  \/ ContainsOptS(url, <<"/","p","r","o","g","r","a","m">>)
  \/ ContainsOptS(url, <<"/","f","o","r","m">>)
  \/ ContainsI(url, <<"/","o","n","l","i","n","e","-">>)
  \/ ContainsI(url, <<"/","m","y","-">>)

\* /\/page\/\d+/i
MatchesPageNumber(url) ==
  \E pos \in 1..Len(url) :
    /\ HasAt(toLowerCase(url), <<"/","p","a","g","e","/">>, pos)
    /\ pos + 6 <= Len(url)
    /\ IsDigit(url[pos + 6])

\* /\/\d{4}\/\d{2}\//i
MatchesDatePath(url) ==
  \E pos \in 1..(Len(url) - 8) :
    /\ url[pos] = "/"
    /\ \A k \in 1..4 : IsDigit(url[pos + k])
    /\ url[pos + 5] = "/"
    /\ \A k \in 6..7 : IsDigit(url[pos + k])
    /\ url[pos + 8] = "/"

\* CONFIG.excludePatterns.some(pattern => pattern.test(url))
isExcluded(url) ==
  \/ ContainsI(url, <<"/","n","e","w","s">>)
  \/ ContainsI(url, <<"/","p","r","e","s","s">>)
  \/ ContainsI(url, <<"/","b","l","o","g">>)
  \/ ContainsI(url, <<"/","a","r","t","i","c","l","e">>)
  \/ ContainsI(url, <<"/","a","b","o","u","t","-","u","s">>)
  \/ ContainsI(url, <<"/","c","o","n","t","a","c","t","-","u","s">>)
  \/ ContainsI(url, <<"/","c","a","r","e","e","r","s">>)
  \/ ContainsI(url, <<"/","j","o","b","s">>)
  \/ ContainsI(url, <<"/","s","t","a","f","f">>)
  \/ ContainsI(url, <<"/","t","e","a","m">>)
  \/ ContainsI(url, <<"/","h","i","s","t","o","r","y">>)
  \/ ContainsI(url, <<"/","p","r","i","v","a","c","y">>)
  \/ ContainsI(url, <<"/","t","e","r","m","s">>)
  \/ ContainsI(url, <<"/","a","c","c","e","s","s","i","b","i","l","i","t","y">>)
  \/ ContainsI(url, <<"/","s","i","t","e","m","a","p">>)
  \/ EndsWithI(url, <<".","p","d","f">>)
  \/ ContainsI(url, <<".","d","o","c">>)
  \/ ContainsI(url, <<".","x","l","s">>)
  \/ EndsWithI(url, <<".","j","p","g">>) \/ EndsWithI(url, <<".","p","n","g">>)
  \/ EndsWithI(url, <<".","g","i","f">>) \/ EndsWithI(url, <<".","s","v","g">>)
  \/ ContainsI(url, <<"/","t","a","g","/">>)
  \/ ContainsI(url, <<"/","c","a","t","e","g","o","r","y","/">>)
  \/ ContainsI(url, <<"/","a","u","t","h","o","r","/">>)
  \/ MatchesPageNumber(url)
  \/ MatchesDatePath(url)

\* looksLikeService without the exclusion test
looksLikeServiceIncludeOnly(url) == matchesService(url)

looksLikeService(url) ==
  IF ~matchesService(url) THEN FALSE
  ELSE IF isExcluded(url) THEN FALSE
  ELSE TRUE

\* normalizeUrl that keeps the trailing slash of the path
normalizeUrlKeepSlash(url) ==
  LET parsed == URL(url)
  IN IF parsed.ok
     THEN parsed.protocol \o <<"/", "/">> \o toLowerCase(parsed.hostname) \o parsed.pathname
     ELSE stripTrailingSlash(toLowerCase(url))

normalizeUrl(url) ==
  LET parsed == URL(url)
  IN IF parsed.ok
     THEN parsed.protocol \o <<"/", "/">> \o toLowerCase(parsed.hostname)
            \o stripTrailingSlash(parsed.pathname)
     ELSE stripTrailingSlash(toLowerCase(url))         \* catch

(***************************************************************************)
(* Regular expressions of check-links.js, matched on characters.  Ends is  *)
(* the set of positions at which a match of re that starts at i may end.   *)
(***************************************************************************)
IsSpace(c) == c \in {" ", "\t", "\n", "\r", "\f"}

Lit(s) == [t |-> "lit", s |-> s]
Ws1 == [t |-> "ws1"]                     \* \s+
Ws0 == [t |-> "ws0"]                     \* \s*
AnyLazy == [t |-> "any"]                 \* .*?
Opt(r) == [t |-> "opt", r |-> r]         \* (r)?
Alt(rs) == [t |-> "alt", rs |-> rs]      \* r1|r2|...
Cat(rs) == [t |-> "cat", rs |-> rs]      \* r1 r2 ...

\* w1\s+w2\s+...
RECURSIVE Words(_)
Words(ws) ==
  IF Len(ws) = 1 THEN Lit(ws[1])
  ELSE Cat(<<Lit(ws[1]), Ws1, Words(Tail(ws))>>)

RECURSIVE Ends(_, _, _), EndsCat(_, _, _)
Ends(re, s, pos) ==
  CASE re.t = "lit" -> IF HasAt(s, re.s, pos) THEN {pos + Len(re.s)} ELSE {}
    [] re.t = "ws1" -> {j \in (pos + 1)..(Len(s) + 1) : \A k \in pos..(j - 1) : IsSpace(s[k])}
    [] re.t = "ws0" -> {j \in pos..(Len(s) + 1) : \A k \in pos..(j - 1) : IsSpace(s[k])}
    [] re.t = "any" -> {j \in pos..(Len(s) + 1) : \A k \in pos..(j - 1) : s[k] \notin {"\n", "\r"}}
    [] re.t = "opt" -> {pos} \cup Ends(re.r, s, pos)
    [] re.t = "alt" -> UNION {Ends(re.rs[n], s, pos) : n \in 1..Len(re.rs)}
    [] re.t = "cat" -> EndsCat(re.rs, s, {pos})

EndsCat(rs, s, from) ==
  IF Len(rs) = 0 THEN from
  ELSE EndsCat(Tail(rs), s, UNION {Ends(rs[1], s, pos) : pos \in from})

\* re.test(s) for an unanchored /re/i
TestI(re, s) == \E pos \in 1..(Len(s) + 1) : Ends(re, toLowerCase(s), pos) # {}

\* CONFIG.soft404Patterns
soft404Patterns ==
  << Cat(<<Lit(<<"p","a","g","e">>), Ws1,
           Alt(<<Words(<<<<"n","o","t">>, <<"f","o","u","n","d">>>>), Words(<<<<"d","o","e","s","n","'","t">>, <<"e","x","i","s","t">>>>),
                 Words(<<<<"d","o","e","s">>, <<"n","o","t">>, <<"e","x","i","s","t">>>>),
                 Words(<<<<"h","a","s">>, <<"b","e","e","n">>, <<"r","e","m","o","v","e","d">>>>)>>)>>),
     Cat(<<Lit(<<"4","0","4">>), Ws0, Opt(Alt(<<Lit(<<"e","r","r","o","r">>), Lit(<<"p","a","g","e">>)>>))>>),
     Cat(<<Lit(<<"c","o","n","t","e","n","t">>), Ws1,
           Alt(<<Words(<<<<"n","o","t">>, <<"f","o","u","n","d">>>>), Lit(<<"u","n","a","v","a","i","l","a","b","l","e">>),
                 Words(<<<<"h","a","s">>, <<"m","o","v","e","d">>>>)>>)>>),
     Cat(<<Words(<<<<"t","h","i","s">>, <<"p","a","g","e">>>>), Ws1,
           Alt(<<Words(<<<<"n","o">>, <<"l","o","n","g","e","r">>>>), Words(<<<<"i","s">>, <<"n","o">>, <<"l","o","n","g","e","r">>>>),
                 Words(<<<<"c","a","n","n","o","t">>, <<"b","e">>, <<"f","o","u","n","d">>>>)>>)>>),
     Cat(<<Lit(<<"w","e">>), Ws1,
           Alt(<<Lit(<<"c","o","u","l","d","n","'","t">>), Words(<<<<"c","o","u","l","d">>, <<"n","o","t">>>>), Lit(<<"c","a","n","'","t">>)>>),
           Ws1, Lit(<<"f","i","n","d">>)>>),
     Cat(<<Words(<<<<"t","h","e">>, <<"r","e","q","u","e","s","t","e","d">>>>), Ws1,
           Alt(<<Lit(<<"p","a","g","e">>), Lit(<<"r","e","s","o","u","r","c","e">>), Lit(<<"u","r","l">>)>>), Ws1,
           Alt(<<Words(<<<<"w","a","s">>, <<"n","o","t">>>>), Words(<<<<"c","o","u","l","d">>, <<"n","o","t">>>>),
                 Lit(<<"c","a","n","n","o","t">>)>>)>>),
     Cat(<<Lit(<<"s","o","r","r","y">>), AnyLazy,
           Alt(<<Words(<<<<"n","o","t">>, <<"f","o","u","n","d">>>>), Words(<<<<"d","o","e","s","n","'","t">>, <<"e","x","i","s","t">>>>),
                 Words(<<<<"n","o">>, <<"l","o","n","g","e","r">>, <<"a","v","a","i","l","a","b","l","e">>>>)>>)>>),
     Cat(<<Words(<<<<"h","a","s">>, <<"b","e","e","n">>>>), Ws1,
           Alt(<<Lit(<<"m","o","v","e","d">>), Lit(<<"d","e","l","e","t","e","d">>), Lit(<<"r","e","m","o","v","e","d">>), Lit(<<"a","r","c","h","i","v","e","d">>)>>)>>),
     Words(<<<<"l","o","o","k","i","n","g">>, <<"f","o","r">>, <<"s","o","m","e","t","h","i","n","g","?">>>>),
     Alt(<<Lit(<<"o","o","p","s">>), Cat(<<Lit(<<"u","h">>), Ws0, Lit(<<"o","h">>)>>)>>) >>

\* CONFIG.soft404TitlePatterns
soft404TitlePatterns ==
  << Lit(<<"4","0","4">>), Words(<<<<"n","o","t">>, <<"f","o","u","n","d">>>>), Words(<<<<"p","a","g","e">>, <<"m","i","s","s","i","n","g">>>>),
     Lit(<<"e","r","r","o","r">>) >>

(***************************************************************************)
(* A response body.  [pre, pad, post] is the text pre, then pad filler     *)
(* characters, then post.  The filler is a character that occurs in no     *)
(* pattern and is no white space, line end, "<" or ">", so a run of it of  *)
(* any positive length matches as one "~" does: the patterns are matched   *)
(* on the text with each run shortened to one character, and lengths and   *)
(* slices are computed on the full text.                                   *)
(***************************************************************************)
Html(pre, pad, post) == [pre |-> pre, pad |-> pad, post |-> post]

htmlLength(h) == Len(h.pre) + h.pad + Len(h.post)

Min(a, b) == IF a < b THEN a ELSE b
Max(a, b) == IF a > b THEN a ELSE b

\* html.slice(0, n)
htmlSlice(h, n) ==
  [pre |-> slice(h.pre, 0, n),
   pad |-> Min(h.pad, Max(0, n - Len(h.pre))),
   post |-> slice(h.post, 0, Max(0, n - Len(h.pre) - h.pad))]

\* the text the patterns are matched on
Text(h) == h.pre \o (IF h.pad > 0 THEN <<"~">> ELSE <<>>) \o h.post

\* String.prototype.trim
RECURSIVE trimLeft(_)
trimLeft(s) == IF Len(s) > 0 /\ IsSpace(s[1]) THEN trimLeft(Tail(s)) ELSE s
RECURSIVE trimRight(_)
trimRight(s) ==
  IF Len(s) > 0 /\ IsSpace(s[Len(s)]) THEN trimRight(SubSeq(s, 1, Len(s) - 1)) ELSE s
trim(s) == trimRight(trimLeft(s))

\* null and undefined where a string may stand
Null == <<"null">>
Undefined == <<"undefined">>

\* the first capture of /<title[^>]*>([^<]+)<\/title>/i that starts at i, or Null:
\* [^>]* runs to the first ">", [^<]+ to the first "<", where "</title>" must stand
TitleAt(s, pos) ==
  LET low == toLowerCase(s)
      gt == IndexOfAny(s, {">"}, pos + 6)
      lt == IF gt = 0 THEN 0 ELSE IndexOfAny(s, {"<"}, gt + 1)
  IN IF HasAt(low, <<"<","t","i","t","l","e">>, pos) /\ gt > 0 /\ lt > gt + 1 /\ HasAt(low, <<"<","/","t","i","t","l","e",">">>, lt)
     THEN SubSeq(s, gt + 1, lt - 1)
     ELSE Null

extractTitle(html) ==
  LET s == Text(html)
      hits == {pos \in 1..Len(s) : TitleAt(s, pos) # Null}
  IN IF hits = {} THEN Null
     ELSE trim(TitleAt(s, CHOOSE pos \in hits : \A j \in hits : pos <= j))

\* the first 10,000 characters of the body are scanned
SampleLength == 10000

\* detectSoft404 that scans the whole body
detectSoft404WholeBody(html, title) ==
  LET titled == title # Null /\ title # <<>>
      sample == Text(html)
      found == {n \in 1..Len(soft404Patterns) : TestI(soft404Patterns[n], sample)}
  IN IF titled /\ \E n \in 1..Len(soft404TitlePatterns) : TestI(soft404TitlePatterns[n], title)
     THEN [detected |-> TRUE, reason |-> "title", pattern |-> 0]
     ELSE IF found # {}
     THEN [detected |-> TRUE, reason |-> "content",
           pattern |-> CHOOSE n \in found : \A m \in found : n <= m]
     ELSE [detected |-> FALSE, reason |-> "none", pattern |-> 0]

detectSoft404(html, title) ==
  LET titled == title # Null /\ title # <<>>
      sample == Text(htmlSlice(html, SampleLength))
      found == {n \in 1..Len(soft404Patterns) : TestI(soft404Patterns[n], sample)}
  IN IF titled /\ \E n \in 1..Len(soft404TitlePatterns) : TestI(soft404TitlePatterns[n], title)
     THEN [detected |-> TRUE, reason |-> "title", pattern |-> 0]
     ELSE IF found # {}
     THEN [detected |-> TRUE, reason |-> "content",
           pattern |-> CHOOSE n \in found : \A m \in found : n <= m]
     ELSE [detected |-> FALSE, reason |-> "none", pattern |-> 0]

(***************************************************************************)
(* Inputs of the pure functions                                            *)
(***************************************************************************)

\* the most path segments of a generated URL
MaxSegs == 3

\* path segments; the empty one gives a trailing or a doubled slash
Segs ==
  { <<"/","s","e","r","v","i","c","e","s">>, <<"/","a","p","p","l","y","-","n","e","w","s">>, <<"/","n","e","w","s">>, <<"/","1","2","3">>, <<"/","a","p","p","l","y">>, <<"/","2","0","2","4">>,
    <<"/","0","3">>, <<"/","R","E","N","E","W">>, <<"/","a","p","p","l","y",".","p","d","f">>, <<"/">> }

RECURSIVE PathsOfLen(_)
PathsOfLen(n) ==
  IF n = 0 THEN {<<>>}
  ELSE {p \o s : p \in PathsOfLen(n - 1), s \in Segs}

Paths == UNION {PathsOfLen(n) : n \in 0..MaxSegs}

\* the spec's example of exclusion precedence
ExampleApplyNews == <<"h","t","t","p","s",":","/","/","x",".","g","o","v","/","s","e","r","v","i","c","e","s","/","a","p","p","l","y","-","n","e","w","s","/","1","2","3">>

LooksInputs == {<<"h","t","t","p","s",":","/","/","x",".","g","o","v">> \o p : p \in Paths}

\* with and without a scheme (the latter does not parse), with and without a query
NormalizeInputs ==
  {pre \o p \o q : pre \in {<<"h","t","t","p","s",":","/","/","x",".","g","o","v">>, <<"H","T","T","P",":","/","/","X",".","G","o","v">>, <<"x",".","g","o","v">>},
                   p \in Paths,
                   q \in {<<>>, <<"?","q","=","1">>}}

RedirectInputs ==
  { <<"h","t","t","p","s",":","/","/","d","m","v",".","c","o","l","o","r","a","d","o",".","g","o","v","/","r","e","n","e","w">>, <<"h","t","t","p","s",":","/","/","w","w","w",".","c","o","l","o","r","a","d","o",".","g","o","v","/","r","e","n","e","w">>,
    <<"h","t","t","p","s",":","/","/","D","M","V",".","C","o","l","o","r","a","d","o",".","g","o","v","/">>, <<"h","t","t","p","s",":","/","/","c","o","l","o","r","a","d","o",".","g","o","v">>,
    <<"h","t","t","p","s",":","/","/","t","o","t","a","l","l","y","-","u","n","r","e","l","a","t","e","d",".","c","o","m","/","r","e","n","e","w">>, <<"h","t","t","p","s",":","/","/","d","e","n","v","e","r",".","c","o",".","u","s","/","x">>,
    <<"h","t","t","p","s",":","/","/","w","w","w",".","d","e","n","v","e","r",".","c","o",".","u","s","/","x">>, <<"h","t","t","p","s",":","/","/","d","m","v",".","s","t","a","t","e",".","c","o",".","u","s","/","x">>,
    <<"h","t","t","p","s",":","/","/","d","o","r",".","s","t","a","t","e",".","c","o",".","u","s","/","x">>, <<"d","m","v",".","c","o","l","o","r","a","d","o",".","g","o","v","/","r","e","n","e","w">>, <<>> }


\* soft-404 phrases, each matched by one of CONFIG.soft404Patterns
Soft404Phrases ==
  { <<"S","o","r","r","y",","," ","w","e"," ","c","o","u","l","d","n","'","t"," ","f","i","n","d"," ","t","h","a","t"," ","p","a","g","e">>, <<"p","a","g","e"," ","n","o","t"," ","f","o","u","n","d">>, <<"4","0","4"," ","e","r","r","o","r">> }

\* a body prefix without any signal
CleanPrefix == <<"<","t","i","t","l","e",">","W","I","C","<","/","t","i","t","l","e",">","W","e","l","c","o","m","e"," ">>

\* the bodies: no phrase at all, or a phrase right after the prefix, ending at
\* character 10,000, cut by one character, cut to one character, starting right
\* after character 10,000, and far after it
Soft404Htmls ==
  {Html(CleanPrefix, 0, <<>>)}
    \cup {Html(CleanPrefix, pad, phrase) :
            phrase \in Soft404Phrases,
            pad \in {0, SampleLength, SampleLength - Len(CleanPrefix)}}
    \cup UNION {{Html(CleanPrefix, SampleLength - Len(CleanPrefix) - Len(phrase), phrase),
                 Html(CleanPrefix, SampleLength - Len(CleanPrefix) - Len(phrase) + 1, phrase),
                 Html(CleanPrefix, SampleLength - Len(CleanPrefix) - 1, phrase)} :
                phrase \in Soft404Phrases}

\* the titles: none, empty, the spec's example, and others with and without signal
Soft404Titles ==
  { Null, <<>>, <<"4","0","4"," ","N","o","t"," ","F","o","u","n","d"," ","-"," ","E","x","a","m","p","l","e"," ","D","e","p","t">>, <<"W","I","C">>, <<"P","a","g","e"," ","M","i","s","s","i","n","g">>,
    <<"I","n","t","e","r","n","a","l"," ","E","r","r","o","r">>, <<"A","p","p","l","y"," ","f","o","r"," ","b","e","n","e","f","i","t","s">> }
(***************************************************************************)
(* The catalog and the remote hosts                                        *)
(***************************************************************************)

\* CONFIG.concurrency of check-links.js
Concurrency == 5

\* the most services of a catalog
MaxServices == 6

\* the k-th service of the catalog: distinct ids, three URLs in turn
ServiceUrl(k) ==
  IF k % 3 = 1 THEN <<"h","t","t","p","s",":","/","/","a",".","g","o","v","/","a","p","p","l","y">>
  ELSE IF k % 3 = 2 THEN <<"h","t","t","p","s",":","/","/","b",".","g","o","v","/","r","e","n","e","w">>
  ELSE <<"h","t","t","p","s",":","/","/","c",".","g","o","v","/","f","o","r","m","s","/">>

\* only the first service names the page of its department; it is a page the
\* sitemaps list too, up to a trailing slash
DepartmentUrl(k) ==
  IF k = 1 THEN <<"h","t","t","p","s",":","/","/","h","c","p","f",".","c","o","l","o","r","a","d","o",".","g","o","v","/","p","r","o","g","r","a","m","s","/","c","h","p","/">> ELSE Undefined

ServiceAt(k) == [id |-> k, url |-> ServiceUrl(k), departmentUrl |-> DepartmentUrl(k)]

\* the sizes of the catalogs: none, one service, one full batch, the most
CatalogSizes == {0, 1, Concurrency, MaxServices}

\* the catalog file: missing, not JSON, or a document with n services
CatalogFiles ==
  {[kind |-> "unreadable", services |-> <<>>], [kind |-> "unparsable", services |-> <<>>]}
    \cup {[kind |-> "ok", services |-> [k \in 1..n |-> ServiceAt(k)]] : n \in CatalogSizes}

\* the two services of the spec's end-to-end scenarios
Service7 == [id |-> 7, url |-> <<"h","t","t","p","s",":","/","/","c","d","p","h","e",".","c","o","l","o","r","a","d","o",".","g","o","v","/","a","p","p","l","y","-","w","i","c">>,
             departmentUrl |-> Undefined]
Service9 == [id |-> 9, url |-> <<"h","t","t","p","s",":","/","/","d","m","v",".","c","o","l","o","r","a","d","o",".","g","o","v","/","r","e","n","e","w","-","p","l","a","t","e","s">>,
             departmentUrl |-> Undefined]

SameBaseUrl == <<"h","t","t","p","s",":","/","/","w","w","w",".","c","o","l","o","r","a","d","o",".","g","o","v","/","s","e","r","v","i","c","e","s">>
UnrelatedUrl == <<"h","t","t","p","s",":","/","/","t","o","t","a","l","l","y","-","u","n","r","e","l","a","t","e","d",".","c","o","m","/">>

ContentTypeHtml == <<"t","e","x","t","/","h","t","m","l",";"," ","c","h","a","r","s","e","t","=","u","t","f","-","8">>
ContentTypePdf == <<"a","p","p","l","i","c","a","t","i","o","n","/","p","d","f">>

HeadResponse(status, url, contentType) ==
  [status |-> status, url |-> url, contentType |-> contentType]

\* what a remote host may answer to the HEAD of one probe: a status, the URL
\* after redirects, a content type ("" when the header is absent)
ProbeHeadResponses(service) ==
  {HeadResponse(st, u, ct) :
     st \in {200, 404, 503},
     u \in {service.url, SameBaseUrl, UnrelatedUrl},
     ct \in {ContentTypeHtml, ContentTypePdf, <<>>}}

\* the answers the hosts give when a whole catalog is audited
AuditHeadResponses(service) ==
  { HeadResponse(200, service.url, ContentTypeHtml),
    HeadResponse(404, service.url, ContentTypeHtml),
    HeadResponse(200, UnrelatedUrl, ContentTypeHtml) }

CleanPage == Html(<<"<","t","i","t","l","e",">","A","p","p","l","y"," ","f","o","r"," ","W","I","C","<","/","t","i","t","l","e",">","W","e","l","c","o","m","e">>, 0, <<>>)
SorryPage == Html(<<"<","t","i","t","l","e",">","W","I","C","<","/","t","i","t","l","e",">","S","o","r","r","y",","," ","w","e"," ","c","o","u","l","d","n","'","t"," ","f","i","n","d"," ","t","h","a","t"," ","p","a","g","e">>, 0, <<>>)

\* the signature is in the title only; the phrase lies after the sampled prefix
NotFoundTitlePage == Html(<<"<","t","i","t","l","e",">","4","0","4"," ","N","o","t"," ","F","o","u","n","d","<","/","t","i","t","l","e",">","H","o","m","e">>, 0, <<>>)
LatePhrasePage == Html(<<"<","t","i","t","l","e",">","W","I","C","<","/","t","i","t","l","e",">">>, SampleLength, <<"p","a","g","e"," ","n","o","t"," ","f","o","u","n","d">>)

AuditBodies == {CleanPage, SorryPage}
ProbeBodies == AuditBodies \cup {NotFoundTitlePage, LatePhrasePage}

\* the non-ok results the hosts cause in one audit of a catalog, at most
MaxIssues == 2

(***************************************************************************)
(* The classifiers, tabulated over the URLs, content types and bodies in   *)
(* play: a constant is evaluated once.                                     *)
(***************************************************************************)
KnownServices == {ServiceAt(k) : k \in 1..3} \cup {Service7, Service9}
KnownUrls == {s.url : s \in KnownServices} \cup {SameBaseUrl, UnrelatedUrl}
KnownContentTypes == {ContentTypeHtml, ContentTypePdf, <<>>}
KnownBodies == ProbeBodies

redirectTable == {<<a, b, isSuspiciousRedirect(a, b)>> : a \in KnownUrls, b \in KnownUrls}
redirectVerdict(a, b) == (CHOOSE t \in redirectTable : t[1] = a /\ t[2] = b)[3]

htmlTable == {<<ct, Contains(ct, <<"t","e","x","t","/","h","t","m","l">>)>> : ct \in KnownContentTypes}
htmlVerdict(ct) == (CHOOSE t \in htmlTable : t[1] = ct)[2]

soft404Table == {<<h, detectSoft404(h, extractTitle(h))>> : h \in KnownBodies}
soft404Verdict(h) == (CHOOSE t \in soft404Table : t[1] = h)[2]
(***************************************************************************)
(* check-links.js: checkUrl, one probe.  A probe is the activation record  *)
(* of one call: where it waits (phase), its two timers, the locals that    *)
(* live across an await, and the AuditResult it returned.                  *)
(***************************************************************************)

\* one call of fetch: the function that makes it, its method, its URL, and the
\* catalog id of the service it is made for (0 when it is made for no service)
Request(by, method, url, id) == [by |-> by, method |-> method, url |-> url, id |-> id]

\* the log of requests after request r was issued
sent(reqs, r) == reqs (+) SetToBag({r})

\* the log after each probe of the batch issued its HEAD request
RECURSIVE sentHeads(_, _)
sentHeads(reqs, batch) ==
  IF Len(batch) = 0 THEN reqs
  ELSE sentHeads(sent(reqs, Request("checkUrl", "HEAD", batch[1].url, batch[1].id)), Tail(batch))

\* the log after each page of the batch was requested
RECURSIVE sentPages(_, _)
sentPages(reqs, urls) ==
  IF Len(urls) = 0 THEN reqs
  ELSE sentPages(sent(reqs, Request("fetchPageInfo", "GET", urls[1], 0)), Tail(urls))

\* Response.ok
ResponseOk(status) == status >= 200 /\ status <= 299

\* no field of this value is set
NoResult ==
  [status |-> "none", service |-> [id |-> 0, url |-> <<>>, departmentUrl |-> Undefined],
   httpStatus |-> 0,
   reason |-> "", finalUrl |-> Undefined, originalUrl |-> Undefined]

AuditResult(service, status, httpStatus, reason, finalUrl, originalUrl) ==
  [status |-> status, service |-> service, httpStatus |-> httpStatus,
   reason |-> reason, finalUrl |-> finalUrl, originalUrl |-> originalUrl]

\* return: the locals die, the timers stay as they are
Return(p, result) ==
  [p EXCEPT !.phase = "done", !.httpStatus = 0, !.finalUrl = Undefined, !.result = result]

\* checkUrl up to its first await: the HEAD request is issued, its timer armed
checkUrlStart(service) ==
  [service |-> service, phase |-> "head", timer |-> "armed", timer2 |-> "none",
   httpStatus |-> 0, finalUrl |-> Undefined, result |-> NoResult]

\* checkUrl with the redirect judged before the HTTP status
checkUrlOnHeadRedirectFirst(p, resp) ==
  LET url == p.service.url
      finalUrl == resp.url
      q == [p EXCEPT !.timer = "cleared"]
  IN IF redirectVerdict(url, finalUrl)
     THEN Return(q, AuditResult(p.service, "redirect_suspicious", resp.status,
                                "Redirected to different domain", finalUrl, url))
     ELSE IF ~ResponseOk(resp.status)
     THEN Return(q, AuditResult(p.service, "broken", resp.status, "HTTP", finalUrl, Undefined))
     ELSE IF htmlVerdict(resp.contentType)
     THEN [q EXCEPT !.phase = "get", !.timer2 = "armed",
                    !.httpStatus = resp.status, !.finalUrl = finalUrl]
     ELSE Return(q, AuditResult(p.service, "ok", resp.status, "",
                                IF finalUrl # url THEN finalUrl ELSE Undefined, Undefined))

\* checkUrl that fetches the body whatever the content type is
checkUrlOnHeadAnyType(p, resp) ==
  LET url == p.service.url
      finalUrl == resp.url
      q == [p EXCEPT !.timer = "cleared"]
  IN IF ~ResponseOk(resp.status)
     THEN Return(q, AuditResult(p.service, "broken", resp.status, "HTTP", finalUrl, Undefined))
     ELSE IF redirectVerdict(url, finalUrl)
     THEN Return(q, AuditResult(p.service, "redirect_suspicious", resp.status,
                                "Redirected to different domain", finalUrl, url))
     ELSE [q EXCEPT !.phase = "get", !.timer2 = "armed",
                    !.httpStatus = resp.status, !.finalUrl = finalUrl]

\* the HEAD response arrived: from clearTimeout(timeoutId) to the next await or return
checkUrlOnHead(p, resp) ==
  LET url == p.service.url
      finalUrl == resp.url
      q == [p EXCEPT !.timer = "cleared"]
  IN IF ~ResponseOk(resp.status)
     THEN Return(q, AuditResult(p.service, "broken", resp.status, "HTTP", finalUrl, Undefined))
     ELSE IF redirectVerdict(url, finalUrl)               \* isSuspiciousRedirect(url, finalUrl)
     THEN Return(q, AuditResult(p.service, "redirect_suspicious", resp.status,
                                "Redirected to different domain", finalUrl, url))
     ELSE IF htmlVerdict(resp.contentType)              \* contentType.includes('text/html')
     THEN [q EXCEPT !.phase = "get", !.timer2 = "armed",
                    !.httpStatus = resp.status, !.finalUrl = finalUrl]
     ELSE Return(q, AuditResult(p.service, "ok", resp.status, "",
                                IF finalUrl # url THEN finalUrl ELSE Undefined, Undefined))

\* the GET response arrived: clearTimeout(timeoutId2), then the body is awaited
checkUrlOnGet(p) == [p EXCEPT !.phase = "text", !.timer2 = "cleared"]

\* the body arrived: from extractTitle to the return
checkUrlOnText(p, html) ==
  LET url == p.service.url
      soft404 == soft404Verdict(html)     \* detectSoft404(html, extractTitle(html))
  IN IF soft404.detected
     THEN Return(p, AuditResult(p.service, "soft_404", p.httpStatus, soft404.reason,
                                p.finalUrl, Undefined))
     ELSE Return(p, AuditResult(p.service, "ok", p.httpStatus, "",
                                IF p.finalUrl # url THEN p.finalUrl ELSE Undefined, Undefined))

\* what a fetch or a body read may throw
AbortError == [name |-> "AbortError", message |-> "This operation was aborted"]
FetchFailed == [name |-> "TypeError", message |-> "fetch failed"]

\* a catch block that does not tell an abort from another failure
checkUrlCatchAll(p, error) ==
  Return(p, AuditResult(p.service, "error", 0, error.message, Undefined, Undefined))

\* catch (error)
checkUrlCatch(p, error) ==
  IF error.name = "AbortError"
  THEN Return(p, AuditResult(p.service, "timeout", 0, "Request timed out", Undefined, Undefined))
  ELSE Return(p, AuditResult(p.service, "error", 0, error.message, Undefined, Undefined))

\* the timer of the request in flight fires: controller.abort() rejects the fetch
\* with an AbortError, which the catch block receives
checkUrlOnTimer(p) ==
  IF p.phase = "head" THEN checkUrlCatch([p EXCEPT !.timer = "fired"], AbortError)
  ELSE checkUrlCatch([p EXCEPT !.timer2 = "fired"], AbortError)

(***************************************************************************)
(* check-links.js: the report                                              *)
(***************************************************************************)

\* results.filter(r => r.status === status)
RECURSIVE filterStatus(_, _)
filterStatus(res, status) ==
  IF Len(res) = 0 THEN <<>>
  ELSE (IF res[1].status = status THEN <<res[1]>> ELSE <<>>)
         \o filterStatus(Tail(res), status)

\* results.filter(r => r.status === status).length
countStatus(res, status) == Len(filterStatus(res, status))

\* a filter that keeps the HTTP failures only
issuesOfBrokenOnly(res) == filterStatus(res, "broken")

\* results.filter(r => r.status !== 'ok')
RECURSIVE issuesOf(_)
issuesOf(res) ==
  IF Len(res) = 0 THEN <<>>
  ELSE (IF res[1].status # "ok" THEN <<res[1]>> ELSE <<>>) \o issuesOf(Tail(res))

\* the summary object of the JSON document
summaryOf(res) ==
  [total |-> Len(res),
   healthy |-> countStatus(res, "ok"),
   broken |-> countStatus(res, "broken"),
   soft404 |-> countStatus(res, "soft_404"),
   suspiciousRedirects |-> countStatus(res, "redirect_suspicious"),
   timeouts |-> countStatus(res, "timeout"),
   errors |-> countStatus(res, "error")]

\* one element of the issues array of the JSON document
issueEntry(r) ==
  [id |-> r.service.id, url |-> r.service.url, status |-> r.status,
   httpStatus |-> r.httpStatus, reason |-> r.reason, finalUrl |-> r.finalUrl]

\* the document main writes in JSON mode
jsonDocument(res) ==
  [format |-> "json",
   summary |-> summaryOf(res),
   issues |-> [k \in 1..Len(issuesOf(res)) |-> issueEntry(issuesOf(res)[k])]]

\* one section of the report: its heading and one entry per result, or nothing
\* when there is no result of that status
reportSection(res, status) ==
  LET found == filterStatus(res, status)
  IN IF Len(found) > 0
     THEN <<[heading |-> status, entries |-> [k \in 1..Len(found) |-> found[k].service.id]]>>
     ELSE <<>>

\* generateReport: the summary lines, then the sections in their fixed order
generateReport(res) ==
  [format |-> "report",
   summary |-> [healthy |-> countStatus(res, "ok"),
                broken |-> countStatus(res, "broken"),
                soft404 |-> countStatus(res, "soft_404"),
                suspiciousRedirects |-> countStatus(res, "redirect_suspicious"),
                timeouts |-> countStatus(res, "timeout"),
                errors |-> countStatus(res, "error"),
                total |-> Len(res)],
   sections |-> reportSection(res, "broken") \o reportSection(res, "soft_404")
                  \o reportSection(res, "redirect_suspicious")
                  \o reportSection(res, "timeout") \o reportSection(res, "error")]
(***************************************************************************)
(* State                                                                   *)
(***************************************************************************)

mainVars == <<program, outputJson, verbose, catalogFile, pc, catalog, stdout, stderr,
              exitCode, fetchCount, requests>>
auditVars == <<i, inflight, results>>
pureVars == <<pureFn, pureArgA, pureArgB, pureDone, pureBool, pureStr, pureStr2>>
probeVars == <<headSeen, bodySeen, thrown, clock>>
discoverVars == <<urlLimit, existingUrls, rootIndex, stack, allDiscoveredUrls,
                  potentialServices, candidates, deepestFetch, deepCalls, rootFetches>>
vars == <<mainVars, auditVars, pureVars, probeVars, discoverVars>>

PureIdle ==
  /\ pureFn = "idle" /\ pureArgA = <<>> /\ pureArgB = <<>> /\ pureDone = FALSE
  /\ pureBool = FALSE /\ pureStr = <<>> /\ pureStr2 = <<>>

MainIdle ==
  /\ outputJson = FALSE /\ verbose = FALSE
  /\ catalogFile = [kind |-> "unreadable", services |-> <<>>]
  /\ pc = "idle" /\ catalog = <<>> /\ stdout = <<>> /\ stderr = <<>>
  /\ exitCode = -1 /\ fetchCount = 0 /\ requests = EmptyBag

AuditIdle == i = 0 /\ inflight = <<>> /\ results = <<>>

NoHead == [status |-> 0, url |-> <<>>, contentType |-> <<>>]

\* const startTime = Date.now(): time is counted from the start of the probe;
\* elapsed and the elapsed property of the result are not assigned yet
ClockStart == [now |-> 0, startTime |-> 0, elapsed |-> -1, result |-> -1]

ProbeIdle == headSeen = NoHead /\ bodySeen = <<>> /\ thrown = "nothing" /\ clock = ClockStart

DiscoverIdle ==
  /\ urlLimit = 0 /\ existingUrls = {} /\ rootIndex = 0 /\ stack = <<>>
  /\ allDiscoveredUrls = <<>> /\ potentialServices = <<>> /\ candidates = <<>>
  /\ deepestFetch = -1 /\ deepCalls = 0 /\ rootFetches = 0

(***************************************************************************)
(* check-links.js: main and checkAllUrls                                   *)
(***************************************************************************)
InitAudit ==
  /\ program = "audit"
  /\ outputJson \in BOOLEAN
  \* verbose is read in `verbose && !outputJson` only: a JSON run without
  \* --verbose is the JSON run with it
  /\ verbose \in {v \in BOOLEAN : outputJson => v}
  /\ catalogFile \in CatalogFiles
  /\ pc = "start" /\ catalog = <<>> /\ stdout = <<>> /\ stderr = <<>>
  /\ exitCode = -1 /\ fetchCount = 0 /\ requests = EmptyBag
  /\ AuditIdle
  /\ PureIdle
  /\ ProbeIdle
  /\ DiscoverIdle

\* a loader that takes a catalog it cannot read for an empty one
loadCatalogLenient(file) == [ok |-> TRUE, services |-> file.services]

\* fs.readFileSync and JSON.parse: the catalog, or an exception
loadCatalog(file) ==
  IF file.kind = "ok" THEN [ok |-> TRUE, services |-> file.services]
  ELSE [ok |-> FALSE, services |-> <<>>]

\* main up to its first await: the catalog is loaded and checkAllUrls is entered,
\* or main's promise is rejected
AuditLoad ==
  /\ program = "audit" /\ pc = "start"
  /\ LET loaded == loadCatalog(catalogFile)
     IN IF loaded.ok
        THEN /\ catalog' = loaded.services
             /\ stderr' = IF ~outputJson THEN Append(stderr, "Checking services...")
                          ELSE stderr
             /\ pc' = "loop"
        ELSE /\ pc' = "fatal"
             /\ UNCHANGED <<catalog, stderr>>
  /\ UNCHANGED <<program, outputJson, verbose, catalogFile, stdout, exitCode, fetchCount, requests>>
  /\ UNCHANGED <<auditVars, pureVars, probeVars, discoverVars>>

\* main().catch: the diagnostic, then process.exit(2)
AuditFatal ==
  /\ program = "audit" /\ pc = "fatal"
  /\ stderr' = Append(stderr, "Fatal error:")
  /\ exitCode' = 2
  /\ pc' = "exited"
  /\ UNCHANGED <<program, outputJson, verbose, catalogFile, catalog, stdout, fetchCount, requests>>
  /\ UNCHANGED <<auditVars, pureVars, probeVars, discoverVars>>

\* a slice that takes all that is left of the list
batchAtWhole(services, from) == slice(services, from, Len(services))

\* services.slice(i, i + CONFIG.concurrency)
batchAt(services, from) == slice(services, from, from + Concurrency)

\* batch.map(checkUrl): every probe of the batch runs to its first await
StartBatch ==
  /\ program = "audit" /\ pc = "loop" /\ i < Len(catalog)
  /\ LET batch == batchAt(catalog, i)
     IN /\ inflight' = [k \in 1..Len(batch) |-> checkUrlStart(batch[k])]
        /\ fetchCount' = fetchCount + Len(batch)
        /\ requests' = sentHeads(requests, batch)
  /\ pc' = "batch"
  /\ UNCHANGED <<program, outputJson, verbose, catalogFile, catalog, stdout, stderr, exitCode>>
  /\ UNCHANGED <<i, results, pureVars, probeVars, discoverVars>>

\* the non-ok results so far, collected or not
misbehaved(rs, probes) ==
  Len(issuesOf(rs))
    + Cardinality({k \in 1..Len(probes) : probes[k].result.status \notin {"none", "ok"}})

\* the HEAD response of probe k arrives
HeadArrives(k, resp) ==
  /\ program = "audit" /\ pc = "batch"
  /\ inflight[k].phase = "head"
  /\ inflight' = [inflight EXCEPT ![k] = checkUrlOnHead(@, resp)]
  /\ misbehaved(results, inflight') <= MaxIssues
  /\ fetchCount' = IF inflight'[k].phase = "get" THEN fetchCount + 1 ELSE fetchCount
  /\ requests' = IF inflight'[k].phase = "get"
                  THEN sent(requests, Request("checkUrl", "GET", inflight'[k].finalUrl,
                                              inflight[k].service.id))
                  ELSE requests
  /\ UNCHANGED <<program, outputJson, verbose, catalogFile, pc, catalog, stdout, stderr,
                 exitCode>>
  /\ UNCHANGED <<i, results, pureVars, probeVars, discoverVars>>

\* the GET response of probe k arrives
GetArrives(k) ==
  /\ program = "audit" /\ pc = "batch"
  /\ inflight[k].phase = "get"
  /\ inflight' = [inflight EXCEPT ![k] = checkUrlOnGet(@)]
  /\ UNCHANGED <<mainVars, i, results, pureVars, probeVars, discoverVars>>

\* the body of probe k's GET response arrives
TextArrives(k, html) ==
  /\ program = "audit" /\ pc = "batch"
  /\ inflight[k].phase = "text"
  /\ inflight' = [inflight EXCEPT ![k] = checkUrlOnText(@, html)]
  /\ misbehaved(results, inflight') <= MaxIssues
  /\ UNCHANGED <<mainVars, i, results, pureVars, probeVars, discoverVars>>

\* the request in flight of probe k fails (DNS, connection, TLS)
FetchFails(k) ==
  /\ program = "audit" /\ pc = "batch"
  /\ inflight[k].phase = "head"
  /\ inflight' = [inflight EXCEPT ![k] = checkUrlCatch(@, FetchFailed)]
  /\ misbehaved(results, inflight') <= MaxIssues
  /\ UNCHANGED <<mainVars, i, results, pureVars, probeVars, discoverVars>>

\* one controller and one timer for the whole batch: when the timer fires, every
\* request of the batch that is still in flight is aborted
TimerFiresShared(k) ==
  /\ program = "audit" /\ pc = "batch"
  /\ inflight[k].phase = "head"
  /\ inflight' = [j \in 1..Len(inflight) |->
                    IF inflight[j].phase = "head" THEN checkUrlOnTimer(inflight[j])
                    ELSE inflight[j]]
  /\ misbehaved(results, inflight') <= MaxIssues
  /\ UNCHANGED <<mainVars, i, results, pureVars, probeVars, discoverVars>>

\* the timer of probe k's request in flight fires
TimerFires(k) ==
  /\ program = "audit" /\ pc = "batch"
  /\ inflight[k].phase = "head"
  /\ inflight' = [inflight EXCEPT ![k] = checkUrlOnTimer(@)]
  /\ misbehaved(results, inflight') <= MaxIssues
  /\ UNCHANGED <<mainVars, i, results, pureVars, probeVars, discoverVars>>

\* the probes' results in the reverse of the order of the batch
batchResultsReversed(probes) ==
  [k \in 1..Len(probes) |-> probes[Len(probes) + 1 - k].result]

\* a progress line whenever verbose is set, in JSON mode too
progressShownVerbose(v, json) == v

\* if (verbose && !outputJson)
progressShown(v, json) == v /\ ~json

\* what Promise.all resolves to: the probes' results in the order of the batch
batchResultsOf(probes) == [k \in 1..Len(probes) |-> probes[k].result]

\* Promise.all resolved: results.push(...batchResults), the progress line, and
\* either the delay before the next batch or the next turn of the loop
CollectBatch ==
  /\ program = "audit" /\ pc = "batch"
  /\ \A k \in 1..Len(inflight) : inflight[k].phase = "done"
  /\ results' = results \o batchResultsOf(inflight)
  /\ inflight' = <<>>
  /\ stderr' = IF progressShown(verbose, outputJson) THEN Append(stderr, "Progress:")
               ELSE stderr
  /\ IF i + Concurrency < Len(catalog)
     THEN pc' = "delay" /\ i' = i
     ELSE pc' = "loop" /\ i' = i + Concurrency
  /\ UNCHANGED <<program, outputJson, verbose, catalogFile, catalog, stdout, exitCode,
                 fetchCount, requests>>
  /\ UNCHANGED <<pureVars, probeVars, discoverVars>>

\* the 500 ms between two batches have passed
DelayElapsed ==
  /\ program = "audit" /\ pc = "delay"
  /\ i' = i + Concurrency
  /\ pc' = "loop"
  /\ UNCHANGED <<program, outputJson, verbose, catalogFile, catalog, stdout, stderr,
                 exitCode, fetchCount, requests>>
  /\ UNCHANGED <<inflight, results, pureVars, probeVars, discoverVars>>

\* the loop of checkAllUrls ends: the line end of the progress line, return results
EndLoop ==
  /\ program = "audit" /\ pc = "loop" /\ i >= Len(catalog)
  /\ stderr' = IF progressShown(verbose, outputJson) THEN Append(stderr, "\n") ELSE stderr
  /\ pc' = "report"
  /\ UNCHANGED <<program, outputJson, verbose, catalogFile, catalog, stdout, exitCode,
                 fetchCount, requests>>
  /\ UNCHANGED <<auditVars, pureVars, probeVars, discoverVars>>

\* console.log of the JSON document or of generateReport(results)
WriteReport ==
  /\ program = "audit" /\ pc = "report"
  /\ stdout' = Append(stdout, IF outputJson THEN jsonDocument(results)
                              ELSE generateReport(results))
  /\ pc' = "exit"
  /\ UNCHANGED <<program, outputJson, verbose, catalogFile, catalog, stderr, exitCode,
                 fetchCount, requests>>
  /\ UNCHANGED <<auditVars, pureVars, probeVars, discoverVars>>

\* an exit code that tells nothing
auditExitCodeZero(rs) == 0

\* the exit code main ends with: process.exit(1) when there are issues, else main
\* returns and the process ends with 0
auditExitCode(rs) == IF Len(issuesOf(rs)) > 0 THEN 1 ELSE 0

AuditExit ==
  /\ program = "audit" /\ pc = "exit"
  /\ exitCode' = auditExitCode(results)
  /\ pc' = "exited"
  /\ UNCHANGED <<program, outputJson, verbose, catalogFile, catalog, stdout, stderr,
                 fetchCount, requests>>
  /\ UNCHANGED <<auditVars, pureVars, probeVars, discoverVars>>

\* the answers to the HEAD of probe k
headResponsesFor(k) ==
  IF program = "audit" THEN AuditHeadResponses(inflight[k].service) ELSE {}

NextAudit ==
  \/ AuditLoad
  \/ AuditFatal
  \/ StartBatch
  \/ \E k \in 1..Len(inflight) : \E resp \in headResponsesFor(k) :
       HeadArrives(k, resp)
  \/ \E k \in 1..Len(inflight) : GetArrives(k)
  \/ \E k \in 1..Len(inflight) : \E html \in AuditBodies : TextArrives(k, html)
  \/ \E k \in 1..Len(inflight) : FetchFails(k)
  \/ \E k \in 1..Len(inflight) : TimerFires(k)
  \/ CollectBatch
  \/ DelayElapsed
  \/ EndLoop
  \/ WriteReport
  \/ AuditExit

SpecAudit == InitAudit /\ [][NextAudit]_vars


(***************************************************************************)
(* One call of checkUrl, against every answer of the remote host           *)
(***************************************************************************)
ProbeServices == {Service7, Service9, ServiceAt(3)}

InitProbe ==
  /\ program = "probe"
  /\ outputJson = FALSE /\ verbose = FALSE
  /\ catalogFile = [kind |-> "unreadable", services |-> <<>>]
  /\ pc = "idle" /\ catalog = <<>> /\ stdout = <<>> /\ stderr = <<>>
  /\ exitCode = -1 /\ fetchCount = 1
  /\ i = 0 /\ results = <<>>
  /\ \E service \in ProbeServices :
       /\ inflight = <<checkUrlStart(service)>>
       /\ requests = sentHeads(EmptyBag, <<service>>)
  /\ ProbeIdle
  /\ PureIdle
  /\ DiscoverIdle

\* the HEAD response arrives
ProbeHead(resp) ==
  /\ program = "probe"
  /\ inflight[1].phase = "head"
  /\ inflight' = [inflight EXCEPT ![1] = checkUrlOnHead(@, resp)]
  /\ headSeen' = resp
  /\ fetchCount' = IF inflight'[1].phase = "get" THEN fetchCount + 1 ELSE fetchCount
  /\ requests' = IF inflight'[1].phase = "get"
                  THEN sent(requests, Request("checkUrl", "GET", inflight'[1].finalUrl,
                                              inflight[1].service.id))
                  ELSE requests
  /\ UNCHANGED <<program, outputJson, verbose, catalogFile, pc, catalog, stdout, stderr,
                 exitCode>>
  /\ LET elapsed == clock.now - clock.startTime      \* const elapsed = Date.now() - startTime
     IN clock' = [clock EXCEPT !.elapsed = elapsed,
                               !.result = IF inflight'[1].phase = "done" THEN elapsed ELSE @]
  /\ UNCHANGED <<i, results, bodySeen, thrown, pureVars, discoverVars>>

\* the GET response arrives; its status is not looked at
ProbeGet ==
  /\ program = "probe"
  /\ inflight[1].phase = "get"
  /\ inflight' = [inflight EXCEPT ![1] = checkUrlOnGet(@)]
  /\ UNCHANGED <<mainVars, i, results, probeVars, pureVars, discoverVars>>

\* the body of the GET response arrives
ProbeText(html) ==
  /\ program = "probe"
  /\ inflight[1].phase = "text"
  /\ inflight' = [inflight EXCEPT ![1] = checkUrlOnText(@, html)]
  /\ bodySeen' = <<html>>
  /\ clock' = [clock EXCEPT !.result = IF inflight'[1].result.status = "soft_404"
                                        THEN clock.now - clock.startTime
                                        ELSE clock.elapsed]
  /\ UNCHANGED <<mainVars, i, results, headSeen, thrown, pureVars, discoverVars>>

\* the HEAD, the GET or the reading of the body throws
ProbeFail ==
  /\ program = "probe"
  /\ inflight[1].phase \in {"head", "get", "text"}
  /\ inflight' = [inflight EXCEPT ![1] = checkUrlCatch(@, FetchFailed)]
  /\ thrown' = "error"
  /\ clock' = [clock EXCEPT !.result = clock.now - clock.startTime]
  /\ UNCHANGED <<mainVars, i, results, headSeen, bodySeen, pureVars, discoverVars>>

\* the timer of the HEAD or of the GET fires while the request is in flight
ProbeTimeout ==
  /\ program = "probe"
  /\ inflight[1].phase \in {"head", "get"}
  /\ inflight' = [inflight EXCEPT ![1] = checkUrlOnTimer(@)]
  /\ thrown' = "abort"
  /\ clock' = [clock EXCEPT !.result = clock.now - clock.startTime]
  /\ UNCHANGED <<mainVars, i, results, headSeen, bodySeen, pureVars, discoverVars>>

\* the milliseconds a probe waits for its requests, at most
MaxClock == 2

\* a millisecond passes while the HEAD, the GET or the body is awaited
ProbeTick ==
  /\ program = "probe"
  /\ inflight[1].phase \in {"head", "get", "text"}
  /\ clock.now < MaxClock
  /\ clock' = [clock EXCEPT !.now = @ + 1]
  /\ UNCHANGED <<mainVars, auditVars, headSeen, bodySeen, thrown, pureVars, discoverVars>>

NextProbe ==
  \/ \E resp \in ProbeHeadResponses(inflight[1].service) : ProbeHead(resp)
  \/ ProbeGet
  \/ \E html \in ProbeBodies : ProbeText(html)
  \/ ProbeFail
  \/ ProbeTimeout
  \/ ProbeTick

SpecProbe == InitProbe /\ [][NextProbe]_vars

\* the same call when an armed timer eventually fires: setTimeout's callback
\* runs unless clearTimeout came first.  Nothing is assumed of the remote host.
SpecProbeFair == InitProbe /\ [][NextProbe]_vars /\ WF_vars(ProbeTimeout)


(***************************************************************************)
(* discover-services.js: the sitemaps and the pages of the remote hosts    *)
(***************************************************************************)

\* CONFIG.concurrency of discover-services.js
DiscoverConcurrency == 3

\* the child sitemaps of an index that are resolved, at most
ChildLimit == 10

\* the greatest depth at which fetchSitemap fetches
MaxDepth == 2

\* --limit when the argument is absent
DefaultLimit == 500

\* CONFIG.sitemapRoots
AllSitemapRoots ==
  << <<"h","t","t","p","s",":","/","/","w","w","w",".","c","o","l","o","r","a","d","o",".","g","o","v","/","s","i","t","e","m","a","p",".","x","m","l">>,
     <<"h","t","t","p","s",":","/","/","c","d","h","s",".","c","o","l","o","r","a","d","o",".","g","o","v","/","s","i","t","e","m","a","p",".","x","m","l">>,
     <<"h","t","t","p","s",":","/","/","c","d","p","h","e",".","c","o","l","o","r","a","d","o",".","g","o","v","/","s","i","t","e","m","a","p",".","x","m","l">>,
     <<"h","t","t","p","s",":","/","/","c","d","l","e",".","c","o","l","o","r","a","d","o",".","g","o","v","/","s","i","t","e","m","a","p",".","x","m","l">>,
     <<"h","t","t","p","s",":","/","/","d","m","v",".","c","o","l","o","r","a","d","o",".","g","o","v","/","s","i","t","e","m","a","p",".","x","m","l">>,
     <<"h","t","t","p","s",":","/","/","t","a","x",".","c","o","l","o","r","a","d","o",".","g","o","v","/","s","i","t","e","m","a","p",".","x","m","l">>,
     <<"h","t","t","p","s",":","/","/","a","g",".","c","o","l","o","r","a","d","o",".","g","o","v","/","s","i","t","e","m","a","p",".","x","m","l">>,
     <<"h","t","t","p","s",":","/","/","d","o","r","a",".","c","o","l","o","r","a","d","o",".","g","o","v","/","s","i","t","e","m","a","p",".","x","m","l">>,
     <<"h","t","t","p","s",":","/","/","o","i","t",".","c","o","l","o","r","a","d","o",".","g","o","v","/","s","i","t","e","m","a","p",".","x","m","l">>,
     <<"h","t","t","p","s",":","/","/","h","c","p","f",".","c","o","l","o","r","a","d","o",".","g","o","v","/","s","i","t","e","m","a","p",".","x","m","l">> >>

\* the roots that are crawled, the first of CONFIG.sitemapRoots
MaxRoots == 2
sitemapRoots == SubSeq(AllSitemapRoots, 1, Min(MaxRoots, Len(AllSitemapRoots)))

\* a sitemap document, by what the two regular expressions capture in it:
\* the <loc> of its <sitemap> elements and the <loc> of its <url> elements
SitemapXml(sitemapLocs, urlLocs) == [sitemapLocs |-> sitemapLocs, urlLocs |-> urlLocs]

ChildSitemapUrl == <<"h","t","t","p","s",":","/","/","w","w","w",".","c","o","l","o","r","a","d","o",".","g","o","v","/","s","i","t","e","m","a","p","-","p","a","g","e","s",".","x","m","l">>

\* the pages a leaf sitemap lists: four that look like a service, one of the
\* catalog (up to a trailing slash), one that is news
PageApplySnap == <<"h","t","t","p","s",":","/","/","c","d","h","s",".","c","o","l","o","r","a","d","o",".","g","o","v","/","a","p","p","l","y","-","s","n","a","p">>
PageInCatalog == <<"h","t","t","p","s",":","/","/","a",".","g","o","v","/","a","p","p","l","y","/">>
PageNews == <<"h","t","t","p","s",":","/","/","c","d","h","s",".","c","o","l","o","r","a","d","o",".","g","o","v","/","n","e","w","s","/","a","p","p","l","y","-","n","o","w">>
PageRenew == <<"h","t","t","p","s",":","/","/","d","m","v",".","c","o","l","o","r","a","d","o",".","g","o","v","/","r","e","n","e","w","-","l","i","c","e","n","s","e">>
PageFile == <<"h","t","t","p","s",":","/","/","t","a","x",".","c","o","l","o","r","a","d","o",".","g","o","v","/","f","i","l","e","-","r","e","t","u","r","n">>
PagePrograms == <<"h","t","t","p","s",":","/","/","h","c","p","f",".","c","o","l","o","r","a","d","o",".","g","o","v","/","p","r","o","g","r","a","m","s","/","c","h","p">>

LeafXml ==
  SitemapXml(<<>>, << PageRenew, <<" ">> \o PageInCatalog \o <<"\n">>, PageNews,
                      PageApplySnap, PageFile, PagePrograms >>)

\* an index that lists itself and a child, and a stray <url> entry
IndexXml(url) == SitemapXml(<<url, <<" ">> \o ChildSitemapUrl>>, <<PageApplySnap>>)

\* what a host may serve for the sitemap at url: www.colorado.gov serves an
\* index or a plain sitemap, the other hosts a plain sitemap
SitemapXmls(url) ==
  IF HasAt(url, <<"h","t","t","p","s",":","/","/","w","w","w",".","c","o","l","o","r","a","d","o",".","g","o","v","/">>, 1) THEN {LeafXml, IndexXml(url)}
  ELSE {LeafXml}

\* the fetches of one discovery run, of sitemaps and of pages, that fail or
\* leave no candidate, at most
MaxFaults == 1

\* a page without a title
UntitledPage == Html(<<"<","h","1",">","W","e","l","c","o","m","e","<","/","h","1",">">>, 0, <<>>)
PageBodies == {CleanPage, UntitledPage}

\* looksLikeService and normalizeUrl, tabulated over the page URLs in play
KnownPageUrls == {PageApplySnap, PageInCatalog, PageNews, PageRenew, PageFile, PagePrograms}
looksTable == {<<u, looksLikeService(u)>> : u \in KnownPageUrls}
looksVerdict(u) == (CHOOSE t \in looksTable : t[1] = u)[2]
normalizedTable == {<<u, normalizeUrl(u)>> : u \in KnownPageUrls}
normalizedVerdict(u) == (CHOOSE t \in normalizedTable : t[1] = u)[2]

\* extractTitle, tabulated over the pages in play
titleTable == {<<h, extractTitle(h)>> : h \in PageBodies}
titleVerdict(h) == (CHOOSE t \in titleTable : t[1] = h)[2]

\* the catalogs discovery is run against: a file that cannot be loaded, or the
\* catalog of one service
DiscoverCatalogFiles ==
  {f \in CatalogFiles : f.kind # "ok" \/ Len(f.services) = 1}

\* the values of --limit
Limits == {2, DefaultLimit}

(***************************************************************************)
(* discover-services.js: fetchSitemap.  An activation is where it waits    *)
(* (phase), its timer, and the locals that live across an await.           *)
(***************************************************************************)

\* a guard that lets one more level through
tooDeepAfterThree(depth) == depth > 3

\* if (depth > 2) return []
tooDeep(depth) == depth > MaxDepth

Frame(url, depth) ==
  [url |-> url, depth |-> depth, phase |-> "fetch", timer |-> "armed",
   childSitemaps |-> <<>>, next |-> 0, urls |-> <<>>]

Front(s) == SubSeq(s, 1, Len(s) - 1)

\* the crawl as one value: the activations and what they have done so far
crawlNow ==
  [stack |-> stack, fetchCount |-> fetchCount, requests |-> requests,
   deepestFetch |-> deepestFetch,
   deepCalls |-> deepCalls, rootFetches |-> rootFetches,
   allDiscoveredUrls |-> allDiscoveredUrls, pc |-> pc, stderr |-> stderr]

\* an array in place of the Set: a URL listed twice is kept twice
addAllKeepDuplicates(set, urls) == set \o urls

\* Set.prototype.add for each of urls; a Set keeps the order of insertion
RECURSIVE addAll(_, _)
addAll(set, urls) ==
  IF Len(urls) = 0 THEN set
  ELSE addAll(IF \E k \in 1..Len(set) : set[k] = urls[1] THEN set
              ELSE Append(set, urls[1]),
              Tail(urls))

\* a loop without its delay: the URLs are pushed and the activation does not wait
resumeWithoutDelay(st, childUrls) ==
  [st EXCEPT ![Len(st)] = [@ EXCEPT !.urls = @ \o childUrls, !.phase = "text"]]

\* the innermost activation receives childUrls from the call it awaits:
\* urls.push(...childUrls), then the 200 ms delay is awaited
resume(st, childUrls) ==
  [st EXCEPT ![Len(st)] = [@ EXCEPT !.urls = @ \o childUrls, !.phase = "delay"]]

\* fetchSitemap(url, depth) is called by the innermost activation, or by main,
\* and runs to its first await: either it returns [] at once or its fetch is issued
called(c, url, depth) ==
  IF tooDeep(depth)
  THEN [c EXCEPT !.stack = resume(@, <<>>), !.deepCalls = @ + 1]
  ELSE [c EXCEPT !.stack = Append(@, Frame(url, depth)),
                 !.fetchCount = @ + 1,
                 !.requests = sent(@, Request("fetchSitemap", "GET", url, 0)),
                 !.deepestFetch = Max(@, depth),
                 !.rootFetches = @ + 1]

\* the innermost activation returns urls, to the activation that called it or
\* to main, which adds them to allDiscoveredUrls and awaits the 500 ms delay
returned(c, urls) ==
  IF Len(c.stack) = 1
  THEN [c EXCEPT !.stack = <<>>, !.allDiscoveredUrls = addAll(@, urls), !.pc = "rootDelay"]
  ELSE [c EXCEPT !.stack = resume(Front(@), urls)]

\* console.error
logged(c, message) == [c EXCEPT !.stderr = Append(@, message)]

\* the response arrived: clearTimeout, then the status is looked at
fetchSitemapOnResponse(c, status) ==
  IF ~ResponseOk(status)
  THEN returned(logged(c, "Failed to fetch"), <<>>)
  ELSE [c EXCEPT !.stack[Len(c.stack)] = [@ EXCEPT !.timer = "cleared", !.phase = "text"]]

\* [...xml.matchAll(re)].map(m => m[1].trim())
trimAll(locs) == [k \in 1..Len(locs) |-> trim(locs[k])]

\* an index whose children are all resolved, however many it lists
fetchSitemapOnTextUnlimited(c, xml) ==
  LET top == c.stack[Len(c.stack)]
      childSitemaps == trimAll(xml.sitemapLocs)
  IN IF Len(childSitemaps) > 0
     THEN called([c EXCEPT !.stack[Len(c.stack)] =
                     [@ EXCEPT !.childSitemaps = childSitemaps,
                               !.next = 1, !.phase = "child"]],
                 childSitemaps[1], top.depth + 1)
     ELSE returned(c, trimAll(xml.urlLocs))

\* the body arrived: an index has its first child resolved, a leaf returns its URLs
fetchSitemapOnText(c, xml) ==
  LET top == c.stack[Len(c.stack)]
      childSitemaps == trimAll(xml.sitemapLocs)
  IN IF Len(childSitemaps) > 0
     THEN called([c EXCEPT !.stack[Len(c.stack)] =
                     [@ EXCEPT !.childSitemaps = slice(childSitemaps, 0, ChildLimit),
                               !.next = 1, !.phase = "child"]],
                 childSitemaps[1], top.depth + 1)
     ELSE returned(c, trimAll(xml.urlLocs))

\* the 200 ms after a child have passed: the next child, or return urls
fetchSitemapOnDelay(c) ==
  LET top == c.stack[Len(c.stack)]
  IN IF top.next < Len(top.childSitemaps)
     THEN called([c EXCEPT !.stack[Len(c.stack)] =
                     [@ EXCEPT !.next = @ + 1, !.phase = "child"]],
                 top.childSitemaps[top.next + 1], top.depth + 1)
     ELSE returned(c, top.urls)

\* a catch block that logs the error and throws it again: the rejection
\* reaches main
fetchSitemapCatchRethrow(c, error) ==
  [logged(c, IF error.name = "AbortError"
             THEN "Error fetching sitemap: This operation was aborted"
             ELSE "Error fetching sitemap: fetch failed")
     EXCEPT !.pc = "fatal"]

\* catch (error)
fetchSitemapCatch(c, error) ==
  returned(logged(c, IF error.name = "AbortError"
                     THEN "Error fetching sitemap: This operation was aborted"
                     ELSE "Error fetching sitemap: fetch failed"),
           <<>>)

(***************************************************************************)
(* discover-services.js: fetchPageInfo                                     *)
(***************************************************************************)
NoInfo == [null |-> TRUE, title |-> Undefined]

fetchPageInfoStart(url) == [url |-> url, phase |-> "fetch", timer |-> "armed", info |-> NoInfo]

\* the response arrived: clearTimeout, then null unless the status is a success
fetchPageInfoOnResponse(p, status) ==
  IF ~ResponseOk(status) THEN [p EXCEPT !.timer = "cleared", !.phase = "done"]
  ELSE [p EXCEPT !.timer = "cleared", !.phase = "text"]

\* the body arrived: the title (the description is not modelled)
fetchPageInfoOnText(p, html) ==
  [p EXCEPT !.phase = "done", !.info = [null |-> FALSE, title |-> titleVerdict(html)]]

\* catch
fetchPageInfoCatch(p) == [p EXCEPT !.phase = "done"]

\* { url, ...info }
pageResult(p) == [url |-> p.url, title |-> p.info.title]

\* if (result.title)
truthy(s) == s # Null /\ s # Undefined /\ s # <<>>

\* the results of a batch that have a title, in the order of the batch
RECURSIVE withTitle(_)
withTitle(probes) ==
  IF Len(probes) = 0 THEN <<>>
  ELSE (IF truthy(pageResult(probes[1]).title) THEN <<pageResult(probes[1])>> ELSE <<>>)
         \o withTitle(Tail(probes))

(***************************************************************************)
(* discover-services.js: main                                              *)
(***************************************************************************)

\* the normalized url and departmentUrl of every service
\* existingUrls without the department URLs
existingUrlsOfServiceUrls(services) ==
  {normalizeUrl(services[k].url) : k \in 1..Len(services)}

existingUrlsOf(services) ==
  {normalizeUrl(services[k].url) : k \in 1..Len(services)}
    \cup {normalizeUrl(services[k].departmentUrl) :
            k \in {n \in 1..Len(services) : truthy(services[n].departmentUrl)}}

\* the filter: not in the catalog, and it looks like a service
RECURSIVE filterPotential(_, _)
filterPotential(urls, existing) ==
  IF Len(urls) = 0 THEN <<>>
  ELSE (IF normalizedVerdict(urls[1]) \notin existing /\ looksVerdict(urls[1])
        THEN <<urls[1]>> ELSE <<>>)
         \o filterPotential(Tail(urls), existing)

\* potentialServices.slice(0, urlLimit)
urlsToCheckOf(potential, limit) == slice(potential, 0, limit)

\* the order of String.prototype.localeCompare on the characters of the URLs in
\* play: punctuation, then digits, then letters
CollationOrder ==
  << "-", ":", ".", "/", "0", "1", "2", "3", "4", "5", "6", "7", "8", "9",
     "a", "b", "c", "d", "e", "f", "g", "h", "i", "j", "k", "l", "m", "n", "o", "p",
     "q", "r", "s", "t", "u", "v", "w", "x", "y", "z" >>

CollationRank(c) ==
  IF \E n \in 1..Len(CollationOrder) : CollationOrder[n] = c
  THEN CHOOSE n \in 1..Len(CollationOrder) : CollationOrder[n] = c
  ELSE 0

\* a.localeCompare(b) < 0, = 0, > 0
RECURSIVE localeCompare(_, _)
localeCompare(a, b) ==
  IF Len(a) = 0 /\ Len(b) = 0 THEN 0
  ELSE IF Len(a) = 0 THEN -1
  ELSE IF Len(b) = 0 THEN 1
  ELSE IF CollationRank(a[1]) < CollationRank(b[1]) THEN -1
  ELSE IF CollationRank(a[1]) > CollationRank(b[1]) THEN 1
  ELSE localeCompare(Tail(a), Tail(b))

\* candidates.sort((a, b) => a.url.localeCompare(b.url)); the sort is stable
RECURSIVE insertByUrl(_, _)
insertByUrl(sorted, c) ==
  IF Len(sorted) = 0 THEN <<c>>
  ELSE IF localeCompare(c.url, sorted[1].url) < 0 THEN <<c>> \o sorted
  ELSE <<sorted[1]>> \o insertByUrl(Tail(sorted), c)

\* a sort that leaves the candidates in the order of their probes
sortByUrlKeepOrder(cs) == cs

\* candidates.sort((a, b) => a.url.localeCompare(b.url))
RECURSIVE sortByUrl(_)
sortByUrl(cs) ==
  IF Len(cs) = 0 THEN <<>>
  ELSE insertByUrl(sortByUrl(Front(cs)), cs[Len(cs)])

\* what main writes to stdout: one JSON document, or the lines of the listing
discoveryOutput(json, services, discovered, potential, cs) ==
  IF json
  THEN <<[format |-> "json",
          existingCount |-> Len(services),
          sitemapUrlsFound |-> Len(discovered),
          potentialServicesFound |-> Len(potential),
          candidatesWithInfo |-> Len(cs),
          candidates |-> cs]>>
  ELSE <<[format |-> "line", text |-> "# Potential New Services", url |-> <<>>],
         [format |-> "line", text |-> "Generated:", url |-> <<>>],
         [format |-> "line", text |-> "", url |-> <<>>],
         [format |-> "line", text |-> "Found potential services", url |-> <<>>],
         [format |-> "line", text |-> "", url |-> <<>>]>>
       \o [k \in 1..(3 * Len(cs)) |->
             IF k % 3 = 1 THEN [format |-> "line", text |-> "## title", url |-> cs[(k + 2) \div 3].url]
             ELSE IF k % 3 = 2 THEN [format |-> "line", text |-> "- URL:", url |-> cs[(k + 1) \div 3].url]
             ELSE [format |-> "line", text |-> "", url |-> <<>>]]

InitDiscover ==
  /\ program = "discover"
  /\ outputJson \in BOOLEAN
  /\ verbose = FALSE
  /\ catalogFile \in DiscoverCatalogFiles
  /\ pc = "start" /\ catalog = <<>> /\ stdout = <<>> /\ stderr = <<>>
  /\ exitCode = -1 /\ fetchCount = 0 /\ requests = EmptyBag
  /\ urlLimit \in Limits
  /\ existingUrls = {} /\ rootIndex = 0 /\ stack = <<>>
  /\ allDiscoveredUrls = <<>> /\ potentialServices = <<>> /\ candidates = <<>>
  /\ deepestFetch = -1 /\ deepCalls = 0 /\ rootFetches = 0
  /\ AuditIdle
  /\ PureIdle
  /\ ProbeIdle

\* the crawl moves on to c
Crawl(c) ==
  /\ stack' = c.stack
  /\ fetchCount' = c.fetchCount
  /\ requests' = c.requests
  /\ deepestFetch' = c.deepestFetch
  /\ deepCalls' = c.deepCalls
  /\ rootFetches' = c.rootFetches
  /\ allDiscoveredUrls' = c.allDiscoveredUrls
  /\ pc' = c.pc
  /\ stderr' = c.stderr

\* main up to its first await: the catalog is loaded, existingUrls is built and
\* the first root is fetched, or main's promise is rejected
DiscoverLoad ==
  /\ program = "discover" /\ pc = "start"
  /\ LET loaded == loadCatalog(catalogFile)
         told == IF ~outputJson
                 THEN [crawlNow EXCEPT !.stderr = @ \o <<"Loaded existing services",
                                                          "Crawling sitemaps...",
                                                          "Fetching">>]
                 ELSE crawlNow
     IN IF loaded.ok
        THEN /\ catalog' = loaded.services
             /\ existingUrls' = existingUrlsOf(loaded.services)
             /\ rootIndex' = 1
             /\ Crawl(called([told EXCEPT !.pc = "crawl", !.rootFetches = 0],
                             sitemapRoots[1], 0))
        ELSE /\ pc' = "fatal"
             /\ UNCHANGED <<catalog, existingUrls, rootIndex, stack, fetchCount, requests,
                            deepestFetch, deepCalls, rootFetches, allDiscoveredUrls, stderr>>
  /\ UNCHANGED <<program, outputJson, verbose, catalogFile, stdout, exitCode>>
  /\ UNCHANGED <<urlLimit, potentialServices, candidates>>
  /\ UNCHANGED <<auditVars, pureVars, probeVars>>

\* main().catch: the diagnostic, then process.exit(1)
DiscoverFatal ==
  /\ program = "discover" /\ pc = "fatal"
  /\ stderr' = Append(stderr, "Fatal error:")
  /\ exitCode' = 1
  /\ pc' = "exited"
  /\ UNCHANGED <<program, outputJson, verbose, catalogFile, catalog, stdout, fetchCount, requests>>
  /\ UNCHANGED <<auditVars, pureVars, probeVars, discoverVars>>

\* the crawl is the only thing that moves
CrawlOnly ==
  /\ UNCHANGED <<program, outputJson, verbose, catalogFile, catalog, stdout, exitCode>>
  /\ UNCHANGED <<urlLimit, existingUrls, rootIndex, potentialServices, candidates>>
  /\ UNCHANGED <<auditVars, pureVars, probeVars>>

Crawling == program = "discover" /\ pc = "crawl" /\ Len(stack) > 0

\* the URL of the sitemap request in flight
innermostUrl == IF Len(stack) > 0 THEN stack[Len(stack)].url ELSE <<>>

\* the sitemap fetches that have failed so far: each leaves one line on stderr
sitemapFaults(lines) ==
  Cardinality({k \in 1..Len(lines) :
                 lines[k] \in {"Failed to fetch", "Error fetching sitemap: fetch failed",
                                "Error fetching sitemap: This operation was aborted"}})

\* the response to the sitemap request in flight arrives
SitemapResponds(status) ==
  /\ Crawling /\ stack[Len(stack)].phase = "fetch"
  /\ Crawl(fetchSitemapOnResponse(crawlNow, status))
  /\ sitemapFaults(stderr') <= MaxFaults
  /\ CrawlOnly

\* the body of the sitemap response arrives
SitemapText(xml) ==
  /\ Crawling /\ stack[Len(stack)].phase = "text"
  /\ Crawl(fetchSitemapOnText(crawlNow, xml))
  /\ CrawlOnly

\* the sitemap request, or the reading of its body, throws
SitemapFails ==
  /\ Crawling /\ stack[Len(stack)].phase \in {"fetch", "text"}
  /\ Crawl(fetchSitemapCatch(crawlNow, FetchFailed))
  /\ sitemapFaults(stderr') <= MaxFaults
  /\ CrawlOnly

\* the timer of the sitemap request in flight fires: the fetch is aborted
SitemapTimerFires ==
  /\ Crawling /\ stack[Len(stack)].phase = "fetch"
  /\ Crawl(fetchSitemapCatch(crawlNow, AbortError))
  /\ sitemapFaults(stderr') <= MaxFaults
  /\ CrawlOnly

\* the 200 ms after a child sitemap have passed
ChildDelayElapsed ==
  /\ Crawling /\ stack[Len(stack)].phase = "delay"
  /\ Crawl(fetchSitemapOnDelay(crawlNow))
  /\ CrawlOnly

\* batch.map(...): every fetchPageInfo of the batch runs to its first await
batchUrls(urls, from) == slice(urls, from, from + DiscoverConcurrency)

\* batch.map(fetchPageInfo): every page probe runs to its first await
pageBatchAt(urls, from) ==
  LET batch == batchUrls(urls, from)
  IN [k \in 1..Len(batch) |-> fetchPageInfoStart(batch[k])]

\* the end of main: the line end, the sort, the output
Finish(cs, potential, lines) ==
  /\ stderr' = IF ~outputJson THEN Append(lines, "\n") ELSE lines
  /\ candidates' = sortByUrl(cs)
  /\ stdout' = stdout \o discoveryOutput(outputJson, catalog, allDiscoveredUrls,
                                          potential, candidates')
  /\ pc' = "exit"

\* the 500 ms after a root have passed: the next root is fetched, or the crawl
\* is over, the URLs are filtered and the first batch of pages is fetched
RootDelayElapsed ==
  /\ program = "discover" /\ pc = "rootDelay"
  /\ IF rootIndex < Len(sitemapRoots)
     THEN /\ rootIndex' = rootIndex + 1
          /\ Crawl(called([crawlNow EXCEPT
                             !.pc = "crawl", !.rootFetches = 0,
                             !.stderr = IF ~outputJson THEN Append(@, "Fetching") ELSE @],
                          sitemapRoots[rootIndex + 1], 0))
          /\ UNCHANGED <<potentialServices, candidates, stdout, i, inflight>>
     ELSE LET potential == filterPotential(allDiscoveredUrls, existingUrls)
              urlsToCheck == urlsToCheckOf(potential, urlLimit)
              lines == IF ~outputJson
                       THEN stderr \o <<"Found total URLs", "Found potential new services",
                                        "Fetching page info">>
                       ELSE stderr
          IN /\ potentialServices' = potential
             /\ i' = 0
             /\ IF Len(urlsToCheck) > 0
                THEN /\ inflight' = pageBatchAt(urlsToCheck, 0)
                     /\ fetchCount' = fetchCount + Len(inflight')
                     /\ requests' = sentPages(requests, batchUrls(urlsToCheck, 0))
                     /\ stderr' = lines
                     /\ pc' = "pages"
                     /\ UNCHANGED <<candidates, stdout>>
                ELSE /\ Finish(candidates, potential, lines)
                     /\ UNCHANGED <<inflight, fetchCount, requests>>
             /\ UNCHANGED <<rootIndex, stack, deepestFetch, deepCalls, rootFetches,
                            allDiscoveredUrls>>
  /\ UNCHANGED <<program, outputJson, verbose, catalogFile, catalog, exitCode>>
  /\ UNCHANGED <<urlLimit, existingUrls, results, pureVars, probeVars>>

\* the page probes that have yielded null so far: those of the batch, and those
\* of the batches before, which left no candidate
pageFaults(probes, checked, cs) ==
  Cardinality({k \in 1..Len(probes) : probes[k].phase = "done" /\ probes[k].info.null})
    + (checked - Len(cs))

\* the pages are the only thing that moves
PagesOnly ==
  /\ sitemapFaults(stderr) + pageFaults(inflight', i, candidates) <= MaxFaults
  /\ UNCHANGED <<mainVars, i, results, pureVars, probeVars, discoverVars>>

Paging(k) == program = "discover" /\ pc = "pages" /\ k \in 1..Len(inflight)

\* the response to the page request of probe k arrives
PageResponds(k, status) ==
  /\ Paging(k) /\ inflight[k].phase = "fetch"
  /\ inflight' = [inflight EXCEPT ![k] = fetchPageInfoOnResponse(@, status)]
  /\ PagesOnly

\* the body of the page of probe k arrives
PageText(k, html) ==
  /\ Paging(k) /\ inflight[k].phase = "text"
  /\ inflight' = [inflight EXCEPT ![k] = fetchPageInfoOnText(@, html)]
  /\ PagesOnly

\* the page request of probe k, or the reading of its body, throws
PageFails(k) ==
  /\ Paging(k) /\ inflight[k].phase \in {"fetch", "text"}
  /\ inflight' = [inflight EXCEPT ![k] = fetchPageInfoCatch(@)]
  /\ PagesOnly

\* the timer of the page request of probe k fires: the fetch is aborted
PageTimerFires(k) ==
  /\ Paging(k) /\ inflight[k].phase = "fetch"
  /\ inflight' = [inflight EXCEPT ![k] = fetchPageInfoCatch([@ EXCEPT !.timer = "fired"])]
  /\ PagesOnly

\* Promise.all resolved: the results with a title are pushed, the progress is
\* written, the 300 ms delay is awaited
PagesCollected ==
  /\ program = "discover" /\ pc = "pages"
  /\ \A k \in 1..Len(inflight) : inflight[k].phase = "done"
  /\ candidates' = candidates \o withTitle(inflight)
  /\ inflight' = <<>>
  /\ stderr' = IF ~outputJson THEN Append(stderr, "Progress:") ELSE stderr
  /\ pc' = "pageDelay"
  /\ UNCHANGED <<program, outputJson, verbose, catalogFile, catalog, stdout, exitCode,
                 fetchCount, requests>>
  /\ UNCHANGED <<urlLimit, existingUrls, rootIndex, stack, allDiscoveredUrls,
                 potentialServices, deepestFetch, deepCalls, rootFetches>>
  /\ UNCHANGED <<i, results, pureVars, probeVars>>

\* the 300 ms after a batch have passed: the next batch, or the end of main
PageDelayElapsed ==
  /\ program = "discover" /\ pc = "pageDelay"
  /\ LET urlsToCheck == urlsToCheckOf(potentialServices, urlLimit)
     IN /\ i' = i + DiscoverConcurrency
        /\ IF i' < Len(urlsToCheck)
           THEN /\ inflight' = pageBatchAt(urlsToCheck, i')
                /\ fetchCount' = fetchCount + Len(inflight')
                /\ requests' = sentPages(requests, batchUrls(urlsToCheck, i'))
                /\ pc' = "pages"
                /\ UNCHANGED <<candidates, stdout, stderr>>
           ELSE /\ Finish(candidates, potentialServices, stderr)
                /\ UNCHANGED <<inflight, fetchCount, requests>>
  /\ UNCHANGED <<program, outputJson, verbose, catalogFile, catalog, exitCode>>
  /\ UNCHANGED <<urlLimit, existingUrls, rootIndex, stack, allDiscoveredUrls,
                 potentialServices, deepestFetch, deepCalls, rootFetches>>
  /\ UNCHANGED <<results, pureVars, probeVars>>

\* main returned and nothing is pending: the process ends with 0
DiscoverExit ==
  /\ program = "discover" /\ pc = "exit"
  /\ exitCode' = 0
  /\ pc' = "exited"
  /\ UNCHANGED <<program, outputJson, verbose, catalogFile, catalog, stdout, stderr,
                 fetchCount, requests>>
  /\ UNCHANGED <<auditVars, pureVars, probeVars, discoverVars>>

NextDiscover ==
  \/ DiscoverLoad
  \/ DiscoverFatal
  \/ \E status \in {200, 404} : SitemapResponds(status)
  \/ \E xml \in SitemapXmls(innermostUrl) : SitemapText(xml)
  \/ SitemapFails
  \/ SitemapTimerFires
  \/ ChildDelayElapsed
  \/ RootDelayElapsed
  \/ \E k \in 1..Len(inflight) : \E status \in {200, 404} : PageResponds(k, status)
  \/ \E k \in 1..Len(inflight) : \E html \in PageBodies : PageText(k, html)
  \/ \E k \in 1..Len(inflight) : PageFails(k)
  \/ \E k \in 1..Len(inflight) : PageTimerFires(k)
  \/ PagesCollected
  \/ PageDelayElapsed
  \/ DiscoverExit

SpecDiscover == InitDiscover /\ [][NextDiscover]_vars

(***************************************************************************)
(* The two programs                                                        *)
(***************************************************************************)
Init == InitAudit \/ InitDiscover

Next == NextAudit \/ NextDiscover

Spec == Init /\ [][Next]_vars
(***************************************************************************)
(* One call of fetchSitemap(root, 0), against an index that lists more     *)
(* children than are resolved                                              *)
(***************************************************************************)
\* the children the wide index lists
MaxChildren == 12

Letters == <<"a", "b", "c", "d", "e", "f", "g", "h", "i", "j", "k", "l", "m", "n", "o", "p">>

CrawlRoot == sitemapRoots[1]

\* the k-th child of the wide index, and the two pages its sitemap lists
WideChildUrl(k) == <<"h","t","t","p","s",":","/","/","w","w","w",".","c","o","l","o","r","a","d","o",".","g","o","v","/","s","i","t","e","m","a","p","-">> \o <<Letters[k]>> \o <<".","x","m","l">>
ChildPages(url) == <<url \o <<"/","a","p","p","l","y">>, url \o <<"/","r","e","n","e","w">>>>

\* an index of MaxChildren children, some with white space around the
\* location, and a stray <url> entry
WideIndexXml ==
  SitemapXml([k \in 1..MaxChildren |->
                IF k % 2 = 0 THEN <<" ">> \o WideChildUrl(k) \o <<"\n">> ELSE WideChildUrl(k)],
             <<PageApplySnap>>)

\* what is served for the sitemap at url: the root is the wide index or a
\* plain sitemap, a child is the plain sitemap of its two pages
CrawlXmls(url) ==
  IF url = CrawlRoot THEN {WideIndexXml, LeafXml}
  ELSE {SitemapXml(<<>>, ChildPages(url))}

\* fetchSitemap(CrawlRoot, 0) has run to its first await
InitCrawl ==
  /\ program = "discover"
  /\ outputJson \in BOOLEAN
  /\ verbose = FALSE
  /\ catalogFile = [kind |-> "unreadable", services |-> <<>>]
  /\ catalog = <<>> /\ stdout = <<>> /\ exitCode = -1
  /\ urlLimit = DefaultLimit
  /\ existingUrls = {} /\ rootIndex = 1
  /\ potentialServices = <<>> /\ candidates = <<>>
  /\ LET c == called([stack |-> <<>>, fetchCount |-> 0, requests |-> EmptyBag,
                      deepestFetch |-> -1, deepCalls |-> 0, rootFetches |-> 0,
                      allDiscoveredUrls |-> <<>>, pc |-> "crawl", stderr |-> <<>>],
                     CrawlRoot, 0)
     IN /\ stack = c.stack /\ fetchCount = c.fetchCount /\ requests = c.requests
        /\ deepestFetch = c.deepestFetch /\ deepCalls = c.deepCalls
        /\ rootFetches = c.rootFetches /\ allDiscoveredUrls = c.allDiscoveredUrls
        /\ pc = c.pc /\ stderr = c.stderr
  /\ AuditIdle
  /\ PureIdle
  /\ ProbeIdle

NextCrawl ==
  \/ \E status \in {200, 404} : SitemapResponds(status)
  \/ \E xml \in CrawlXmls(innermostUrl) : SitemapText(xml)
  \/ SitemapFails
  \/ SitemapTimerFires
  \/ ChildDelayElapsed

SpecCrawl == InitCrawl /\ [][NextCrawl]_vars

(***************************************************************************)
(* The pure functions applied to inputs drawn from the sets above          *)
(***************************************************************************)
InitPure ==
  /\ program = "pure"
  /\ MainIdle
  /\ AuditIdle
  /\ ProbeIdle
  /\ DiscoverIdle
  /\ \/ pureFn = "looksLikeService" /\ pureArgA \in LooksInputs /\ pureArgB = <<>>
     \/ pureFn = "normalizeUrl" /\ pureArgA \in NormalizeInputs /\ pureArgB = <<>>
     \/ /\ pureFn = "isSuspiciousRedirect"
        /\ pureArgA \in RedirectInputs
        /\ pureArgB \in RedirectInputs
     \/ /\ pureFn = "detectSoft404"
        /\ pureArgA \in Soft404Htmls
        /\ pureArgB \in Soft404Titles
  /\ pureDone = FALSE
  /\ pureBool = FALSE
  /\ pureStr = <<>>
  /\ pureStr2 = <<>>

ApplyLooksLikeService ==
  /\ pureFn = "looksLikeService" /\ ~pureDone
  /\ pureBool' = looksLikeService(pureArgA)
  /\ pureDone' = TRUE
  /\ UNCHANGED <<pureFn, pureArgA, pureArgB, pureStr, pureStr2>>
  /\ UNCHANGED <<mainVars, auditVars, probeVars, discoverVars>>

ApplyNormalizeUrl ==
  /\ pureFn = "normalizeUrl" /\ ~pureDone
  /\ pureStr' = normalizeUrl(pureArgA)
  /\ pureStr2' = normalizeUrl(pureArgA \o <<"/">>)
  /\ pureDone' = TRUE
  /\ UNCHANGED <<pureFn, pureArgA, pureArgB, pureBool>>
  /\ UNCHANGED <<mainVars, auditVars, probeVars, discoverVars>>

ApplyIsSuspiciousRedirect ==
  /\ pureFn = "isSuspiciousRedirect" /\ ~pureDone
  /\ pureBool' = isSuspiciousRedirect(pureArgA, pureArgB)
  /\ pureDone' = TRUE
  /\ UNCHANGED <<pureFn, pureArgA, pureArgB, pureStr, pureStr2>>
  /\ UNCHANGED <<mainVars, auditVars, probeVars, discoverVars>>

\* the verdict in pureBool, the kind of reason in pureStr
ApplyDetectSoft404 ==
  /\ pureFn = "detectSoft404" /\ ~pureDone
  /\ LET soft404 == detectSoft404(pureArgA, pureArgB)
     IN /\ pureBool' = soft404.detected
        /\ pureStr' = <<soft404.reason>>
  /\ pureDone' = TRUE
  /\ UNCHANGED <<pureFn, pureArgA, pureArgB, pureStr2>>
  /\ UNCHANGED <<mainVars, auditVars, probeVars, discoverVars>>

NextPure ==
  \/ ApplyLooksLikeService
  \/ ApplyNormalizeUrl
  \/ ApplyIsSuspiciousRedirect
  \/ ApplyDetectSoft404

SpecPure == InitPure /\ [][NextPure]_vars

(***************************************************************************)
(* Claims about one health probe                                           *)
(***************************************************************************)

\* the status the ordered decision of the specification gives to a probe that
\* received the HEAD response head and, if it asked for it, the body
DecidedStatus(url, head, body) ==
  IF ~(head.status >= 200 /\ head.status <= 299) THEN "broken"
  ELSE IF isSuspiciousRedirect(url, head.url) THEN "redirect_suspicious"
  ELSE IF /\ Contains(head.contentType, <<"t","e","x","t","/","h","t","m","l">>)
          /\ body # <<>>
          /\ detectSoft404(body[1], extractTitle(body[1])).detected THEN "soft_404"
  ELSE "ok"

\* C2: for a probe whose HEAD and (if issued) GET complete without throwing, the
\* status is fixed by the ordered decision: HEAD non-success => broken; else
\* suspicious redirect => redirect_suspicious; else HTML whose body is flagged =>
\* soft_404; else ok.  The body is read exactly when the first two tests pass
\* and the content type is HTML.  HEAD 200, unchanged URL and a clean body give
\* ok; a successful HEAD ending on an unrelated host gives redirect_suspicious.
C2_DecisionOrder ==
  (program = "probe" /\ inflight[1].phase = "done" /\ thrown = "nothing") =>
    LET r == inflight[1].result
        url == inflight[1].service.url
    IN /\ r.status = DecidedStatus(url, headSeen, bodySeen)
       /\ r.service = inflight[1].service
       /\ (bodySeen # <<>>) <=>
            /\ headSeen.status >= 200 /\ headSeen.status <= 299
            /\ ~isSuspiciousRedirect(url, headSeen.url)
            /\ Contains(headSeen.contentType, <<"t","e","x","t","/","h","t","m","l">>)
       /\ (headSeen.status = 200 /\ headSeen.url = url /\ bodySeen = <<CleanPage>>)
            => r.status = "ok"
       /\ (headSeen.status = 200 /\ headSeen.url = UnrelatedUrl)
            => r.status = "redirect_suspicious"
       /\ (headSeen.status = 404 /\ headSeen.url = UnrelatedUrl) => r.status = "broken"

\* service 7: HEAD 200 on the unchanged URL, a GET body without signal, result ok
C2_Witness ==
  /\ program = "probe" /\ inflight[1].phase = "done" /\ thrown = "nothing"
  /\ inflight[1].service = Service7
  /\ headSeen.status = 200 /\ headSeen.url = Service7.url
  /\ bodySeen = <<CleanPage>>
  /\ inflight[1].result.status = "ok"

\* C4: a HEAD or GET aborted by its timer yields status timeout, any other
\* exception of a HEAD or GET yields status error, and in both cases the probe
\* returns a result for its service.
C4_TimeoutOrError ==
  (program = "probe" /\ thrown # "nothing") =>
    /\ inflight[1].phase = "done"
    /\ inflight[1].result.service = inflight[1].service
    /\ thrown = "abort" => inflight[1].result.status = "timeout"
    /\ thrown = "error" => inflight[1].result.status = "error"

\* the timer of the GET fired and the probe returned a timeout
C4_Witness ==
  /\ program = "probe" /\ thrown = "abort"
  /\ inflight[1].timer2 = "fired"
  /\ inflight[1].result.status = "timeout"

(***************************************************************************)
(* Claims about the audit pipeline                                         *)
(***************************************************************************)
Statuses == {"ok", "broken", "soft_404", "redirect_suspicious", "timeout", "error"}

\* C1: an audit over a catalog of n services returns exactly n results, and
\* result k is the result for service k, whatever the order in which the probes
\* of a batch complete and whatever their outcomes.
C1_OrderPreserved ==
  program = "audit" =>
    /\ Len(results) <= Len(catalog)
    /\ \A k \in 1..Len(results) : results[k].service = catalog[k]
    /\ pc \in {"report", "exit"} => Len(results) = Len(catalog)
    /\ (pc = "exited" /\ exitCode # 2) => Len(results) = Len(catalog)

\* two batches were collected; in the first, a later service failed and an
\* earlier one did not
C1_Witness ==
  /\ program = "audit" /\ pc = "exited"
  /\ Len(results) > Concurrency
  /\ results[1].status = "ok" /\ results[2].status = "timeout"
  /\ results[Len(results)].status = "soft_404"

\* the entries the report lists
RECURSIVE reportedEntries(_)
reportedEntries(sections) ==
  IF Len(sections) = 0 THEN 0
  ELSE Len(sections[1].entries) + reportedEntries(Tail(sections))

\* C3: every result has one of the six statuses, and the summary partitions the
\* results: healthy + broken + soft404 + suspiciousRedirects + timeouts +
\* errors = total = the number of services, and the issues reported are
\* total - healthy.
C3_SummaryPartition ==
  program = "audit" =>
    /\ \A k \in 1..Len(results) : results[k].status \in Statuses
    /\ \A k \in 1..Len(inflight) :
         inflight[k].phase = "done" => inflight[k].result.status \in Statuses
    /\ \A d \in 1..Len(stdout) :
         LET s == stdout[d].summary
         IN /\ s.healthy + s.broken + s.soft404 + s.suspiciousRedirects
                 + s.timeouts + s.errors = s.total
            /\ s.total = Len(catalog)
            /\ stdout[d].format = "json" => Len(stdout[d].issues) = s.total - s.healthy
            /\ stdout[d].format = "report"
                 => reportedEntries(stdout[d].sections) = s.total - s.healthy

\* a JSON document with two issues of different kinds among more than five
\* results was written
C3_Witness ==
  /\ program = "audit" /\ Len(stdout) = 1
  /\ stdout[1].format = "json"
  /\ stdout[1].summary.total > Concurrency
  /\ stdout[1].summary.timeouts = 1 /\ stdout[1].summary.soft404 = 1
  /\ Len(stdout[1].issues) = 2

\* C5: the audit exits with 1 if and only if some result is not ok and with 0
\* when every result is ok, in JSON mode and in report mode alike, and only
\* after the report has been written.
C5_ExitCode ==
  (program = "audit" /\ catalogFile.kind = "ok") =>
    /\ pc = "exited" =>
         /\ exitCode = 1 <=> \E k \in 1..Len(results) : results[k].status # "ok"
         /\ exitCode = 0 <=> \A k \in 1..Len(results) : results[k].status = "ok"
    /\ exitCode # -1 => (pc = "exited" /\ Len(stdout) = 1)
    /\ pc # "exited" => exitCode = -1

\* a run in report mode ended with 1 after it wrote its report
C5_Witness ==
  /\ program = "audit" /\ pc = "exited" /\ ~outputJson
  /\ exitCode = 1 /\ Len(stdout) = 1
  /\ \E k \in 1..Len(results) : results[k].status = "broken"

(***************************************************************************)
(* Claims about fatal errors and about the sitemap resolver                *)
(***************************************************************************)

\* C6: when the catalog cannot be read or parsed the run is aborted with a fatal
\* exit code of its own: the audit exits with 2 (0 and 1 are its other codes),
\* discovery with 1 (0 is its other code); no network request is issued and
\* nothing is written to stdout, and the diagnostic is on stderr.
C6_FatalExit ==
  /\ (program \in {"audit", "discover"} /\ catalogFile.kind # "ok") =>
       /\ fetchCount = 0 /\ stdout = <<>>
       /\ pc \in {"start", "fatal", "exited"}
       /\ pc = "exited" =>
            /\ exitCode = IF program = "audit" THEN 2 ELSE 1
            /\ stderr = <<"Fatal error:">>
       /\ pc # "exited" => exitCode = -1
  /\ (program = "audit" /\ catalogFile.kind = "ok") => exitCode \in {-1, 0, 1}
  /\ (program = "discover" /\ catalogFile.kind = "ok") => exitCode \in {-1, 0}

\* the audit of a catalog that is not JSON has ended
C6_Witness ==
  /\ program = "audit" /\ catalogFile.kind = "unparsable"
  /\ pc = "exited" /\ exitCode = 2
  /\ fetchCount = 0 /\ stdout = <<>>

\* the widest index the hosts serve
IndexWidth == Len(IndexXml(<<>>).sitemapLocs)

C7_Depths ==
  program = "discover" =>
    /\ deepestFetch <= 2
    /\ Len(stack) <= 3
    /\ \A k \in 1..Len(stack) : stack[k].depth = k - 1
    /\ rootFetches <= 1 + IndexWidth + IndexWidth * IndexWidth

C7_DeepCall ==
  deepCalls' > deepCalls =>
    /\ fetchCount' = fetchCount
    /\ Len(stack') = Len(stack)
    /\ stack[Len(stack)].depth = 2
    /\ stack'[Len(stack')].urls = stack[Len(stack)].urls

\* C7: fetchSitemap never fetches at a depth greater than 2: a call with
\* depth > 2 returns the empty sequence without a request and adds no URL to its
\* caller's, so only the documents at depths 0, 1 and 2 are fetched, and the
\* fetches for one root are bounded even when an index lists itself.
C7_DepthBound == []C7_Depths /\ [][C7_DeepCall]_vars

\* an index that lists itself was followed down to depth 2, its children at
\* depth 3 were not fetched, and the run ended
C7_Witness ==
  /\ program = "discover" /\ pc = "exited" /\ exitCode = 0
  /\ deepestFetch = 2 /\ deepCalls >= 2

(***************************************************************************)
(* Claims about the pure functions                                         *)
(***************************************************************************)

\* C8: looksLikeService(url) is false for every URL that matches an exclude
\* pattern, whatever include patterns it also matches.
C8_ExclusionWins ==
  (pureFn = "looksLikeService" /\ pureDone /\ isExcluded(pureArgA)) => pureBool = FALSE

\* a URL that matches an include pattern and an exclude pattern was classified
C8_Witness ==
  /\ pureFn = "looksLikeService" /\ pureDone
  /\ matchesService(pureArgA) /\ isExcluded(pureArgA)
  /\ ContainsI(pureArgA, <<"/","s","e","r","v","i","c","e","s","/">>) /\ ContainsI(pureArgA, <<"/","n","e","w","s">>)

\* C8 as stated, with its example: .../services/apply-news/123 is excluded by
\* the news pattern.
C8_Original ==
  /\ C8_ExclusionWins
  /\ (pureFn = "looksLikeService" /\ pureDone /\ pureArgA = ExampleApplyNews)
       => (ContainsI(pureArgA, <<"/","n","e","w","s">>) /\ pureBool = FALSE)

\* u + "/" extends the path of u, and that path already ends in "/"
EndsInPathSlash(u) ==
  /\ Len(u) > 0 /\ u[Len(u)] = "/"
  /\ IndexOfAny(u, {"?", "#"}, 1) = 0

\* C9 (amended): for every well-formed catalog URL u that carries a query string
\* or does not end in "/", normalizeUrl(u) = normalizeUrl(u + "/"); for a u
\* whose path already ends in "/" the two differ, since exactly one trailing
\* slash is removed.
C9_TrailingSlashOnce ==
  (pureFn = "normalizeUrl" /\ pureDone /\ URL(pureArgA).ok)
    => ((pureStr = pureStr2) <=> ~EndsInPathSlash(pureArgA))

\* a URL without trailing slash, with a non-root path, was normalised both ways
C9_Witness ==
  /\ pureFn = "normalizeUrl" /\ pureDone /\ URL(pureArgA).ok
  /\ ~EndsInPathSlash(pureArgA)
  /\ Len(URL(pureArgA).pathname) > 1
  /\ IndexOfAny(pureArgA, {"?"}, 1) = 0
  /\ pureStr = pureStr2

\* C9 as stated: normalizeUrl(u) = normalizeUrl(u + "/") for every catalog URL u,
\* including one that already ends in "/".
C9_Original ==
  (pureFn = "normalizeUrl" /\ pureDone /\ URL(pureArgA).ok) => pureStr = pureStr2

\* C10: isSuspiciousRedirect(a, a) is false for every well-formed a; it is true
\* whenever either argument fails to parse; for two parsable URLs it is false
\* exactly when the hosts are identical or their base domains are equal.
C10_SuspiciousRedirect ==
  (pureFn = "isSuspiciousRedirect" /\ pureDone) =>
    LET a == URL(pureArgA)
        b == URL(pureArgB)
    IN /\ (a.ok /\ pureArgA = pureArgB) => pureBool = FALSE
       /\ (~a.ok \/ ~b.ok) => pureBool = TRUE
       /\ (a.ok /\ b.ok) =>
            (pureBool = FALSE <=>
               \/ a.hostname = b.hostname
               \/ getBaseDomain(a.hostname) = getBaseDomain(b.hostname))

\* two parsable URLs on different hosts of one base domain were compared
C10_Witness ==
  /\ pureFn = "isSuspiciousRedirect" /\ pureDone
  /\ URL(pureArgA).ok /\ URL(pureArgB).ok
  /\ URL(pureArgA).hostname # URL(pureArgB).hostname
  /\ pureBool = FALSE

\* the 1-based positions at which an occurrence of phrase in body h ends
PhraseEnds(h, phrase) ==
  {pos + Len(phrase) - 1 : pos \in {p \in 1..Len(h.pre) : HasAt(h.pre, phrase, p)}}
    \cup {Len(h.pre) + h.pad + pos + Len(phrase) - 1 :
            pos \in {p \in 1..Len(h.post) : HasAt(h.post, phrase, p)}}

\* the title matches one of CONFIG.soft404TitlePatterns
TitleSignal(title) ==
  /\ title # Null /\ title # <<>>
  /\ \/ ContainsI(title, <<"4","0","4">>) \/ ContainsI(title, <<"n","o","t"," ","f","o","u","n","d">>)
     \/ ContainsI(title, <<"p","a","g","e"," ","m","i","s","s","i","n","g">>) \/ ContainsI(title, <<"e","r","r","o","r">>)

\* C11: detectSoft404 checks the title first: a title with a title signature is
\* reported with a reason that names the title, whatever the body holds;
\* otherwise only the first 10,000 characters of the body are scanned: a phrase
\* that ends within them is flagged, a phrase that occurs only after them is not.
C11_TitleThenSample ==
  (pureFn = "detectSoft404" /\ pureDone) =>
    /\ TitleSignal(pureArgB) => (pureBool /\ pureStr = <<"title">>)
    /\ ~TitleSignal(pureArgB) =>
         /\ pureStr # <<"title">>
         /\ \A phrase \in Soft404Phrases :
              /\ (\E e \in PhraseEnds(pureArgA, phrase) : e <= SampleLength)
                   => (pureBool /\ pureStr = <<"content">>)
              /\ (/\ pureArgA.pre = CleanPrefix /\ pureArgA.post = phrase
                  /\ \A e \in PhraseEnds(pureArgA, phrase) :
                       e - Len(phrase) + 1 > SampleLength)
                   => (~pureBool /\ pureStr = <<"none">>)

\* a body whose phrase starts right after character 10,000 was not flagged
C11_Witness ==
  /\ pureFn = "detectSoft404" /\ pureDone
  /\ ~TitleSignal(pureArgB)
  /\ pureArgA.post = <<"S","o","r","r","y",","," ","w","e"," ","c","o","u","l","d","n","'","t"," ","f","i","n","d"," ","t","h","a","t"," ","p","a","g","e">>
  /\ Len(pureArgA.pre) + pureArgA.pad = SampleLength
  /\ ~pureBool

(***************************************************************************)
(* Claims about the discovery pipeline                                     *)
(***************************************************************************)

\* the URLs of the candidates that document or line d of stdout reports
reportedUrls(d) ==
  IF stdout[d].format = "json"
  THEN {stdout[d].candidates[k].url : k \in 1..Len(stdout[d].candidates)}
  ELSE IF stdout[d].url # <<>> THEN {stdout[d].url} ELSE {}

\* the page URLs that look like a service
ServiceLike == {u \in KnownPageUrls : looksLikeService(u)}

\* C12: no candidate that discovery reports has a URL normalized-equal to the
\* url or the departmentUrl of a catalog service, and every reported candidate
\* URL satisfies looksLikeService, whatever the sitemaps return.
C12_CandidatesAreNew ==
  program = "discover" =>
    \A d \in 1..Len(stdout) : \A u \in reportedUrls(d) :
      /\ u \in ServiceLike
      /\ \A k \in 1..Len(catalog) :
           /\ normalizeUrl(u) # normalizeUrl(catalog[k].url)
           /\ truthy(catalog[k].departmentUrl)
                => normalizeUrl(u) # normalizeUrl(catalog[k].departmentUrl)

\* the sitemaps listed the page of the service and the page of its department,
\* and a report with candidates was written
C12_Witness ==
  /\ program = "discover" /\ pc = "exited" /\ Len(catalog) = 1
  /\ \E k \in 1..Len(allDiscoveredUrls) : allDiscoveredUrls[k] = PageInCatalog
  /\ \E k \in 1..Len(allDiscoveredUrls) : allDiscoveredUrls[k] = PagePrograms
  /\ \E k \in 1..Len(allDiscoveredUrls) : allDiscoveredUrls[k] = PageNews
  /\ Len(stdout) = 1 /\ stdout[1].format = "json" /\ Len(stdout[1].candidates) >= 2

(***************************************************************************)
(* C13: truncation, retention and order of the discovery candidates        *)
(***************************************************************************)

\* the page probes issued so far, and their number
pageProbes == {r \in BagToSet(requests) : r.by = "fetchPageInfo"}
pageProbeCount == Cardinality(pageProbes)
probedUrls == {r.url : r \in pageProbes}

\* the first n of the filtered URLs
firstUrls(n) == {potentialServices[k] : k \in 1..Min(n, Len(potentialServices))}

\* the URLs of the probes whose info has a non-empty title
titled(probes) == {probes[k].url : k \in {j \in 1..Len(probes) : truthy(probes[j].info.title)}}

candidateUrls(cs) == {cs[k].url : k \in 1..Len(cs)}

sortedByUrl(cs) ==
  \A a, b \in 1..Len(cs) : a < b => localeCompare(cs[a].url, cs[b].url) < 0

\* C13, at every moment: the pages probed are among the first urlLimit filtered
\* URLs, no more than urlLimit of them, each candidate is a probed page, and a
\* probe that failed, was answered without success or found no title has no
\* title to be kept for; when main is over, the pages probed are exactly the
\* first urlLimit filtered URLs and the candidates are in ascending order of URL
C13_Retained ==
  program = "discover" =>
    /\ pageProbeCount <= urlLimit
    /\ \A r \in pageProbes : CopiesIn(r, requests) = 1
    /\ probedUrls \subseteq firstUrls(urlLimit)
    /\ candidateUrls(candidates) \subseteq probedUrls
    /\ \A k \in 1..Len(inflight) :
         inflight[k].phase = "done" /\ inflight[k].info.null
           => inflight[k].url \notin titled(inflight)
    /\ pc \in {"exit", "exited"} /\ exitCode # 1 =>
         /\ probedUrls = firstUrls(urlLimit)
         /\ sortedByUrl(candidates)
         /\ stdout[1].format = "json" => stdout[1].candidates = candidates

\* C13, at every step: the candidates gain exactly the pages of the batch whose
\* probe returned a non-empty title, when the batch is collected, and neither
\* gain nor lose a page at any other step
C13_Collected ==
  program = "discover" =>
    candidateUrls(candidates') =
      candidateUrls(candidates)
        \cup (IF pc = "pages" /\ pc' = "pageDelay" THEN titled(inflight) ELSE {})

\* C13: The discovery pipeline probes at most `limit` URLs, the first `limit`
\* of the filtered URLs; its candidates are exactly the probed URLs whose info
\* probe returned a non-empty title; the final list is sorted by URL ascending.
C13_LimitTitleOrder == [](C13_Retained) /\ [][C13_Collected]_vars

\* a run cut to its limit: two of three filtered pages were probed, one probe
\* found no title and the other became the only candidate
C13_Witness ==
  /\ program = "discover" /\ pc = "exited" /\ exitCode = 0
  /\ Len(potentialServices) > urlLimit
  /\ pageProbeCount = urlLimit
  /\ Len(candidates) = 1

(***************************************************************************)
(* C14: the two output streams                                             *)
(***************************************************************************)

\* what console.log writes: a JSON document, the audit report, a listing line
Documents == {"json", "report", "line"}

\* main's promise was rejected
endedFatally == \E k \in 1..Len(stderr) : stderr[k] = "Fatal error:"

\* main has written its output
outputWritten == pc \in {"exit", "exited"} /\ ~endedFatally

\* the progress of checkAllUrls: the progress line and its line end
auditProgress == {k \in 1..Len(stderr) : stderr[k] \in {"Progress:", "\n"}}

\* C14: In JSON mode each pipeline writes exactly one structured document to
\* stdout per run and nothing else; every progress or diagnostic message, in
\* any mode, goes to stderr, and audit progress is emitted only when verbose is
\* set and JSON mode is off.
C14_StreamsApart ==
  program \in {"audit", "discover"} =>
    /\ \A k \in 1..Len(stdout) : stdout[k].format \in Documents
    /\ outputJson =>
         /\ Len(stdout) <= 1
         /\ \A k \in 1..Len(stdout) : stdout[k].format = "json"
         /\ outputWritten => Len(stdout) = 1
    /\ ~outputWritten => stdout = <<>>
    /\ program = "audit" /\ auditProgress # {} => verbose /\ ~outputJson
    /\ program = "audit" /\ verbose /\ ~outputJson /\ outputWritten /\ Len(catalog) > 0
         => auditProgress # {}

\* a verbose audit in JSON mode went through two batches and wrote its one
\* document; nothing was written to stderr
C14_Witness ==
  /\ program = "audit" /\ outputJson /\ verbose /\ pc = "exited"
  /\ Len(results) > Concurrency
  /\ Len(stdout) = 1 /\ stdout[1].format = "json"
  /\ stderr = <<>>

(***************************************************************************)
(* C15: slices of at most `concurrency` workers, one slice at a time       *)
(***************************************************************************)

\* the calls of fetch made by function f with method m, each counted
started(f, m) ==
  LET made == {r \in BagToSet(requests) : r.by = f /\ r.method = m}
  IN BagCardinality([r \in made |-> requests[r]])

\* the workers of the slice that have not completed
running == {k \in 1..Len(inflight) : inflight[k].phase # "done"}

\* the slice of the n items that starts after item `from`
sliceSize(n, from, width) == Min(width, n - from)

C16_NoDelayAfterLastSlice ==
  /\ program = "audit" /\ pc = "delay" => i + Concurrency < Len(catalog)
  /\ program = "discover" /\ pc = "pageDelay" =>
       i + DiscoverConcurrency < Len(urlsToCheckOf(potentialServices, urlLimit))

\* discovery waits its 300 ms after the only slice of a run: no slice is left
C16_Witness ==
  /\ program = "discover" /\ pc = "pageDelay" /\ i = 0
  /\ Len(urlsToCheckOf(potentialServices, urlLimit)) \in 1..DiscoverConcurrency

(***************************************************************************)
(* C17: every probe returns, if armed timers fire                          *)
(***************************************************************************)

\* a stall before the response headers is bounded: while the HEAD or the GET is
\* awaited its timer is armed, and the probe leaves that await
C17_HeadersBounded ==
  (program = "probe" /\ inflight[1].phase \in {"head", "get"})
    ~> (inflight[1].phase \notin {"head", "get"})

\* C17: Every invocation runs to completion: assuming only that armed timers
\* eventually fire, each health probe eventually returns a classified result,
\* even when the remote host never finishes responding, whether it stalls before
\* sending response headers or during the transfer of the response body.
C17_ProbeReturns ==
  <>(program = "probe" /\ inflight[1].phase = "done"
       /\ inflight[1].result.status \in Statuses)

\* the body of the GET response is awaited and no timer of the probe is armed
C17_Witness ==
  /\ program = "probe" /\ inflight[1].phase = "text"
  /\ inflight[1].timer = "cleared" /\ inflight[1].timer2 = "cleared"

(***************************************************************************)
(* C18: the probes of a batch are isolated from each other                 *)
(***************************************************************************)

\* a batch is in flight: Promise.all of the slice is awaited
batchInFlight ==
  \/ program = "audit" /\ pc = "batch"
  \/ program = "discover" /\ pc = "pages"

\* the probes of the batch that this step moves
moved == {k \in 1..Len(inflight) : inflight'[k] # inflight[k]}

\* probe k ends in its catch block at this step: a timeout, an abort, an exception
caught(k) ==
  /\ inflight[k].phase # "done" /\ inflight'[k].phase = "done"
  /\ IF program = "audit" THEN inflight'[k].result.status \in {"timeout", "error"}
     ELSE inflight'[k].info.null

\* what the probes had returned when Promise.all resolved
settled ==
  IF program = "audit" THEN results' = results \o [k \in 1..Len(inflight) |-> inflight[k].result]
  ELSE candidates' = candidates \o withTitle(inflight)

\* C18, one step: while the batch is awaited the probes keep their number, a
\* step moves one probe only, so a probe that times out or throws leaves each
\* sibling as it was; a probe that has returned keeps its result; the batch
\* never ends in main's fatal handler, and when it ends each probe contributes
\* the result it returned itself
C18_Step ==
  batchInFlight =>
    /\ pc' # "fatal"
    /\ pc' = pc =>
         /\ Len(inflight') = Len(inflight)
         /\ Cardinality(moved) <= 1
         /\ \A k \in 1..Len(inflight) :
              /\ inflight[k].phase = "done" => inflight'[k] = inflight[k]
              /\ caught(k) => \A j \in 1..Len(inflight) : j # k => inflight'[j] = inflight[j]
    /\ pc' # pc =>
         /\ \A k \in 1..Len(inflight) : inflight[k].phase = "done"
         /\ settled

getRequests == {r \in BagToSet(requests) : r.by = "checkUrl" /\ r.method = "GET"}

\* the HEAD has completed and its answer passes the three tests before the GET
headPasses ==
  /\ headSeen # NoHead
  /\ ResponseOk(headSeen.status)
  /\ ~isSuspiciousRedirect(inflight[1].service.url, headSeen.url)
  /\ Contains(headSeen.contentType, <<"t","e","x","t","/","h","t","m","l">>)

\* C19: Within one health probe a GET is issued only after the HEAD has
\* completed with a success status, the redirect was judged not suspicious, and
\* the HEAD's content-type contains text/html; the GET targets the HEAD's final
\* URL and has its own timeout.  When the content-type is not HTML no GET is
\* issued and the result is ok.
C19_GetAfterHead ==
  program = "probe" =>
    /\ (getRequests # {}) <=> headPasses
    /\ \A r \in getRequests :
         /\ r.url = headSeen.url /\ r.id = inflight[1].service.id
         /\ CopiesIn(r, requests) = 1
    /\ Cardinality(getRequests) <= 1
    /\ inflight[1].phase = "get" =>
         /\ inflight[1].timer = "cleared" /\ inflight[1].timer2 = "armed"
         /\ getRequests # {}
    /\ inflight[1].phase = "head" => inflight[1].timer2 = "none"
    /\ (/\ headSeen # NoHead /\ ResponseOk(headSeen.status)
        /\ ~isSuspiciousRedirect(inflight[1].service.url, headSeen.url)
        /\ ~Contains(headSeen.contentType, <<"t","e","x","t","/","h","t","m","l">>))
         => /\ getRequests = {}
            /\ inflight[1].phase = "done" /\ inflight[1].result.status = "ok"

\* the HEAD of service 9 was redirected within its base domain and answered
\* with HTML: the GET is in flight to the final URL, under its own timer
C19_Witness ==
  /\ program = "probe" /\ inflight[1].service = Service9
  /\ inflight[1].phase = "get" /\ inflight[1].timer2 = "armed"
  /\ headSeen.url = SameBaseUrl /\ headSeen.url # Service9.url
  /\ getRequests = {Request("checkUrl", "GET", SameBaseUrl, Service9.id)}

(***************************************************************************)
(* C20: no retry                                                           *)
(***************************************************************************)

\* the calls of fetch made with method m for the service of catalog id n
requestsFor(m, n) ==
  LET made == {r \in BagToSet(requests) : r.by = "checkUrl" /\ r.method = m /\ r.id = n}
  IN BagCardinality([r \in made |-> requests[r]])

\* the services whose probe has been started
startedServices == IF pc = "batch" THEN i + Len(inflight) ELSE Len(results)

sitemapFailsNow == sitemapFaults(stderr') = sitemapFaults(stderr) + 1

\* the requests made for sitemap root r
rootRequests(r) == CopiesIn(Request("fetchSitemap", "GET", r, 0), requests)

\* C21, one step: the failing call returns [] to its caller and raises nothing;
\* a child's failure leaves the URLs its parent has gathered from the siblings
\* as they are and the parent goes on to its delay, a root's failure leaves
\* allDiscoveredUrls as it is and main goes on to its delay
C21_Step ==
  (program = "discover" /\ sitemapFailsNow) =>
    /\ pc = "crawl" /\ pc' # "fatal"
    /\ Len(stack') = Len(stack) - 1
    /\ allDiscoveredUrls' = allDiscoveredUrls
    /\ IF Len(stack) = 1
       THEN pc' = "rootDelay"
       ELSE /\ pc' = "crawl"
            /\ stack'[Len(stack')].urls = stack[Len(stack) - 1].urls
            /\ stack'[Len(stack')].phase = "delay"
            /\ \A k \in 1..(Len(stack') - 1) : stack'[k] = stack[k]

\* C21, at every moment: once the crawl is over every root has been requested,
\* whatever failed on the way
C21_RootsResolved ==
  (program = "discover" /\ pc \in {"pages", "pageDelay", "exit"}) =>
    /\ rootIndex = Len(sitemapRoots)
    /\ \A k \in 1..Len(sitemapRoots) : rootRequests(sitemapRoots[k]) >= 1

\* C21: fetchSitemap fails closed: it never raises, and returns the empty
\* sequence on a non-success HTTP status, on a fetch exception and on a
\* timeout; a child sitemap that fails this way contributes an empty result to
\* its parent index without discarding the URLs resolved from its sibling
\* children, and a failed root does not stop the remaining roots from being
\* resolved.
C21_FailsClosed == [][C21_Step]_vars /\ [](C21_RootsResolved)

\* the second child of an index has just failed: the index holds the URLs of
\* its first child and waits its delay before the next child
C21_Witness ==
  /\ program = "discover" /\ pc = "crawl" /\ Len(stack) = 1
  /\ stack[1].phase = "delay" /\ stack[1].next = 2
  /\ Len(stack[1].urls) > 0
  /\ Len(stderr) > 0 /\ sitemapFaults(<<stderr[Len(stderr)]>>) = 1

(***************************************************************************)
(* C22: index or leaf                                                      *)
(***************************************************************************)

\* the children of the wide index that have been requested
requestedChildren ==
  {k \in 1..MaxChildren :
     CopiesIn(Request("fetchSitemap", "GET", WideChildUrl(k), 0), requests) > 0}

\* the pages of children from..to in document order, those of failed left out
RECURSIVE pagesOfChildren(_, _, _)
pagesOfChildren(from, to, failed) ==
  IF from > to THEN <<>>
  ELSE (IF from \in failed THEN <<>> ELSE ChildPages(WideChildUrl(from)))
       \o pagesOfChildren(from + 1, to, failed)

\* the call fetchSitemap(CrawlRoot, 0) has returned to main
rootReturned == program = "discover" /\ pc = "rootDelay" /\ stack = <<>>

\* C22: A sitemap document that contains at least one nested-sitemap location
\* is treated as an index: only its first 10 child entries are resolved (at
\* depth + 1), the result is the concatenation of the children's resolved URLs
\* in document order, and any leaf URL entries in that document are ignored; a
\* document with no nested-sitemap location is treated as a leaf and yields all
\* of its URL locations in document order.
C22_IndexOrLeaf ==
  /\ requestedChildren \subseteq 1..ChildLimit
  /\ \A k \in requestedChildren :
       CopiesIn(Request("fetchSitemap", "GET", WideChildUrl(k), 0), requests) = 1
  /\ \A k \in 2..Len(stack) : stack[k].depth = stack[k - 1].depth + 1
  /\ (Len(stack) > 0 /\ stack[1].next > 0) =>
       /\ stack[1].childSitemaps = [k \in 1..ChildLimit |-> WideChildUrl(k)]
       /\ requestedChildren = 1..stack[1].next
       /\ \E failed \in SUBSET (1..stack[1].next) :
            /\ Cardinality(failed) <= sitemapFaults(stderr)
            /\ stack[1].urls =
                 pagesOfChildren(1, IF Len(stack) = 1 /\ stack[1].phase = "delay"
                                    THEN stack[1].next ELSE stack[1].next - 1, failed)
  /\ rootReturned =>
       IF requestedChildren # {}
       THEN /\ requestedChildren = 1..ChildLimit
            /\ \E failed \in SUBSET (1..ChildLimit) :
                 /\ Cardinality(failed) = sitemapFaults(stderr)
                 /\ allDiscoveredUrls = pagesOfChildren(1, ChildLimit, failed)
       ELSE IF sitemapFaults(stderr) = 0
            THEN allDiscoveredUrls = trimAll(LeafXml.urlLocs)
            ELSE allDiscoveredUrls = <<>>

\* the wide index has been resolved without a failure: the pages of its first
\* ten children, and nothing of the others or of its own <url> entry
C22_Witness ==
  /\ rootReturned
  /\ requestedChildren = 1..ChildLimit
  /\ MaxChildren > ChildLimit
  /\ Len(allDiscoveredUrls) = 2 * ChildLimit
  /\ Len(WideIndexXml.urlLocs) > 0

(***************************************************************************)
(* C23: elapsed                                                            *)
(***************************************************************************)

\* the probe has returned
probeDone == program = "probe" /\ inflight[1].phase = "done"

\* the time from the start of the probe to the end of its last network call:
\* no time passes in the model once the probe has returned
wallTime == clock.now - clock.startTime

\* on every path but the ok result that follows a GET, elapsed is the wall time
C23_OtherPaths ==
  (probeDone /\ ~(inflight[1].result.status = "ok" /\ bodySeen # <<>>)) =>
    clock.result = wallTime

\* C23: Every AuditResult, on every path (ok, broken, redirect_suspicious,
\* soft_404, timeout, error), records elapsed as the wall time from the start
\* of the probe to the end of the probe's last network call; in particular,
\* when a GET was performed the elapsed value includes the GET's duration, for
\* an ok result as well as for a soft_404 result.
C23_ElapsedToEnd == probeDone => clock.result = wallTime

\* an ok result after a GET that took time: elapsed is the time the HEAD took
C23_Witness ==
  /\ probeDone /\ inflight[1].result.status = "ok" /\ bodySeen = <<CleanPage>>
  /\ clock.elapsed = 1 /\ clock.result = 1 /\ wallTime = 2

(***************************************************************************)
(* C24: departmentUrl                                                      *)
(***************************************************************************)

\* the requests checkUrl has made to url, with any method and for any service
requestsTo(url) ==
  Cardinality({r \in BagToSet(requests) : r.by = "checkUrl" /\ r.url = url})

\* the audit has run to its end
auditOver == program = "audit" /\ pc = "exited" /\ ~endedFatally

\* C24: The audit checks the departmentUrl of each catalog service (when
\* present) as well as its url: a service whose departmentUrl is broken
\* produces a non-ok finding in the run.  A finding about a departmentUrl
\* needs a request to it: by the end of the audit one has been made to the
\* departmentUrl of every service that has one, and there is a result for it
\* besides the result for the url.
C24_DepartmentUrlChecked ==
  auditOver =>
    \A k \in 1..Len(catalog) :
      catalog[k].departmentUrl # Undefined =>
        /\ requestsTo(catalog[k].departmentUrl) > 0
        /\ Cardinality({j \in 1..Len(results) : results[j].service.id = catalog[k].id}) > 1

\* an audit ended healthy, with exit code 0 and one result per service, and
\* never asked for the departmentUrl of its first service
C24_Witness ==
  /\ auditOver /\ exitCode = 0
  /\ Len(catalog) > 0 /\ catalog[1].departmentUrl # Undefined
  /\ Len(results) = Len(catalog)
  /\ \A k \in 1..Len(results) : results[k].status = "ok"
  /\ requestsTo(catalog[1].departmentUrl) = 0
  /\ requestsTo(catalog[1].url) > 0

(***************************************************************************)
(* C25: getBaseDomain and the registrable domain                           *)
(***************************************************************************)

\* the host ends in the two labels co.us
endsInCoUs(hostname) == sliceLast(split(hostname, "."), 2) = <<<<"c","o">>, <<"u","s">>>>

\* the last n dot-separated labels of the host
lastLabels(hostname, n) == join(sliceLast(split(hostname, "."), n), ".")

\* the registrable domain of a host: its suffix, co.us or the last label, and
\* the label before it
registrableDomain(hostname) ==
  IF endsInCoUs(hostname) THEN lastLabels(hostname, 3) ELSE lastLabels(hostname, 2)

\* isSuspiciousRedirect has been applied to two URLs that parse
redirectJudged ==
  /\ pureFn = "isSuspiciousRedirect" /\ pureDone
  /\ URL(pureArgA).ok /\ URL(pureArgB).ok

\* the first half of C25: four labels under co.us, two labels otherwise
C25_LastLabels ==
  redirectJudged =>
    \A h \in {URL(pureArgA).hostname, URL(pureArgB).hostname} :
      getBaseDomain(h) = IF endsInCoUs(h) THEN lastLabels(h, 4) ELSE lastLabels(h, 2)

\* C25: getBaseDomain(host) returns the last four dot-separated labels of the
\* host when the host ends in the two-label government suffix co.us (including
\* state.co.us hosts), and the last two labels otherwise; consequently a
\* redirect between two hosts under the same registrable domain (e.g.
\* dmv.colorado.gov -> www.colorado.gov, or denver.co.us -> www.denver.co.us)
\* is never classified redirect_suspicious.
C25_SameDomainNeverSuspicious ==
  redirectJudged =>
    /\ \A h \in {URL(pureArgA).hostname, URL(pureArgB).hostname} :
         getBaseDomain(h) = IF endsInCoUs(h) THEN lastLabels(h, 4) ELSE lastLabels(h, 2)
    /\ registrableDomain(URL(pureArgA).hostname) = registrableDomain(URL(pureArgB).hostname)
         => pureBool = FALSE

\* the redirect from denver.co.us to www.denver.co.us has been judged suspicious
C25_Witness ==
  /\ redirectJudged
  /\ pureArgA = <<"h","t","t","p","s",":","/","/","d","e","n","v","e","r",".","c","o",".","u","s","/","x">> /\ pureArgB = <<"h","t","t","p","s",":","/","/","w","w","w",".","d","e","n","v","e","r",".","c","o",".","u","s","/","x">>
  /\ getBaseDomain(URL(pureArgA).hostname) = <<"d","e","n","v","e","r",".","c","o",".","u","s">>
  /\ getBaseDomain(URL(pureArgB).hostname) = <<"w","w","w",".","d","e","n","v","e","r",".","c","o",".","u","s">>
  /\ pureBool = TRUE

(***************************************************************************)
(* C26: the crawl is sequential                                            *)
(***************************************************************************)

\* the activations of fetchSitemap whose request is in flight: the response or
\* its body is awaited
fetching == {k \in 1..Len(stack) : stack[k].phase \in {"fetch", "text"}}

\* C26, at every moment: only the innermost activation has a request in
\* flight, the others await a child; no page probe exists while the roots are
\* being resolved, and when one exists every root has been resolved
C26_OneInFlight ==
  program = "discover" =>
    /\ fetching \subseteq {Len(stack)}
    /\ \A k \in 1..(Len(stack) - 1) : stack[k].phase = "child"
    /\ pc \in {"start", "crawl", "rootDelay"} => pageProbes = {} /\ inflight = <<>>
    /\ pageProbes # {} =>
         /\ stack = <<>> /\ rootIndex = Len(sitemapRoots)
         /\ \A k \in 1..Len(sitemapRoots) : rootRequests(sitemapRoots[k]) >= 1

\* C26, one step: a fetch starts one at a time, for the next root after main's
\* delay (or at the start), for the first child when the index has been read,
\* for the next child in document order after the delay of the child before;
\* a call that returns leaves its caller in its delay
C26_Step ==
  program = "discover" =>
    /\ Len(stack') > Len(stack) =>
         /\ Len(stack') = Len(stack) + 1
         /\ stack'[Len(stack')].phase = "fetch"
         /\ IF Len(stack) = 0
            THEN /\ pc \in {"start", "rootDelay"}
                 /\ rootIndex' = rootIndex + 1
                 /\ stack'[1].url = sitemapRoots[rootIndex'] /\ stack'[1].depth = 0
            ELSE LET top == stack[Len(stack)]
                     parent == stack'[Len(stack)]
                 IN /\ pc = "crawl" /\ top.phase \in {"text", "delay"}
                    /\ parent.next = (IF top.phase = "text" THEN 1 ELSE top.next + 1)
                    /\ top.phase = "delay" => parent.childSitemaps = top.childSitemaps
                    /\ stack'[Len(stack')].url = parent.childSitemaps[parent.next]
                    /\ stack'[Len(stack')].depth = top.depth + 1
    /\ Len(stack') < Len(stack) =>
         IF Len(stack') = 0 THEN pc' = "rootDelay"
         ELSE stack'[Len(stack')].phase = "delay"
    /\ (pc = "rootDelay" /\ pc' # "rootDelay") =>
         \/ pc' = "crawl" /\ Len(stack') = 1
         \/ rootIndex = Len(sitemapRoots) /\ pc' \in {"pages", "exit"}

\* C26: During the crawl phase of discovery at most one sitemap fetch is in
\* flight at any time: roots are resolved one after another, the children of
\* an index are resolved one after another in document order, and a pacing
\* delay follows each child and each root before the next fetch starts; no info
\* probe starts before every sitemap root has been resolved.
C26_Sequential == [](C26_OneInFlight) /\ [][C26_Step]_vars

\* the second child of an index is being fetched while the index awaits it
C26_Witness ==
  /\ program = "discover" /\ pc = "crawl" /\ Len(stack) = 2
  /\ stack[1].phase = "child" /\ stack[1].next = 2
  /\ stack[2].phase = "fetch" /\ stack[2].url = stack[1].childSitemaps[2]
  /\ fetching = {2}

=============================================================================
